---- MODULE Spec2Model ----
(***************************************************************************)
(* Command translation and submission engine of the Vulkan HAL             *)
(* (submit_cmds, create_transact, wait_cmd_drain, destroy_cmd_drain and    *)
(* the _record_cmd translator), with the device that executes what is      *)
(* submitted to its queues.                                                *)
(*                                                                         *)
(* Handles are natural numbers.  _push_transact_submit_detail creates a    *)
(* command pool, a command buffer and a semaphore together, so the three   *)
(* objects of one submit detail share one index into `dev`.                *)
(***************************************************************************)
EXTENDS Integers, Sequences, FiniteSets, TLC

\* Longest command sequence given to submit_cmds / create_transact.
MaxCmds == 3
\* Number of submit_cmds calls made on the drain.
MaxSubmits == 2
\* Number of create_transact calls.
MaxTransacts == 1

\* Most queue families the physical device reports.
MaxQfams == 2
\* Most memory types the physical device reports.
MaxMemTypes == 2
\* Most buffers and most images created.
MaxBufs == 1
MaxImgs == 1
\* Most resources a task binds, most tasks and most resource pools created.
MaxRscTys == 2
MaxTasks == 1
MaxRscPools == 1
\* Most render passes and most timestamps created.
MaxPasses == 1
MaxTimestamps == 1
\* Most physical devices of the machine, and most layer names collected.
MaxPhysDevs == 2
MaxLayers == 3
\* Largest buffer copied to and largest byte value.
MaxCopySize == 3
MaxByte == 2

VK_NULL_HANDLE == 0
\* ~0U, as a 32-bit two's complement integer.
VK_QUEUE_FAMILY_IGNORED == -1
\* The handle _create_fence returns for the drain's fence.
FenceHandle == 1

L_SUBMIT_TYPE_ANY == "any"
L_SUBMIT_TYPE_GRAPHICS == "graphics"
L_SUBMIT_TYPE_COMPUTE == "compute"
SubmitTypes == {L_SUBMIT_TYPE_ANY, L_SUBMIT_TYPE_GRAPHICS, L_SUBMIT_TYPE_COMPUTE}

VK_COMMAND_BUFFER_LEVEL_PRIMARY == "primary"
VK_COMMAND_BUFFER_LEVEL_SECONDARY == "secondary"

VARIABLES
  pc,         \* where the host thread is: "idle", "submit_cmds",
              \* "create_transact", "wait_cmd_drain" or "crashed"
  transact,   \* the TransactionLike of the recording in progress
  cmds,       \* the commands the recording in progress has consumed so far
  cmd_drain,  \* the CommandDrain: submit_details and fence handle
  tx,         \* the Transaction made by create_transact
  dev,        \* device objects by handle: pool, semaphore, command buffer
  queue,      \* the batches given to vkQueueSubmit, in submission order
  fence,      \* the drain's fence object on the device
  lost,       \* the device is lost
  err,        \* message of the last failure the caller saw ("" if none)
  ncall,      \* number of submit_cmds calls so far
  ntransact,  \* number of create_transact calls so far
  qfam_props, \* the queue families of the physical device
  ctxt,       \* the Context: whether it exists, queue_allocs and
              \* mem_ty_idxs_by_host_access
  mem_prop,   \* the memory types of the physical device (property flags)
  bufs,       \* the Buffer objects the host holds, in creation order
  imgs,       \* the Image objects the host holds, in creation order
  rsc_dev,    \* what the device holds for them, by handle: buffers, images,
              \* image views, memory allocations, layouts, shader
              \* modules, pipelines, descriptor pools and sets, render
              \* passes, framebuffers and query pools
  tasks,      \* the Task objects the host holds, in creation order
  rsc_pools,  \* the ResourcePool objects the host holds, in creation order
  passes,     \* the RenderPass objects the host holds, in creation order
  timestamps, \* the Timestamp objects the host holds, in creation order
  vk          \* the process-wide state of the module: the instance, the
              \* physical devices and their descriptions, the layers asked
              \* for and the last warning logged

\* The resources made from a Context, and the memory they are made on.
\* The tasks, the pools that bind resources to them, and what else is made
\* from a Context.
task_vars == <<tasks, rsc_pools, passes, timestamps>>

rsc_vars == <<vk, mem_prop, bufs, imgs, rsc_dev, task_vars>>

\* The recording, submission and context state.
hal_vars == <<pc, transact, cmds, cmd_drain, tx, dev, queue, fence, lost, err,
             ncall, ntransact, qfam_props, ctxt>>

vars == <<hal_vars, rsc_vars>>

Last(s) == s[Len(s)]

(***************************************************************************)
(* Commands (the tagged variant given to _record_cmd).                     *)
(***************************************************************************)
SetSubmitTypeCmds ==
  {[ty |-> "set_submit_ty", submit_ty |-> s] : s \in SubmitTypes}
InlineTransactCmds == {[ty |-> "inline_transact"]}
CopyBufCmds ==
  {[ty |-> "copy_buf", src_size |-> p[1], dst_size |-> p[2]] :
     p \in {<<1, 1>>, <<1, 2>>, <<0, 0>>}}
CopyImgCmds ==
  {[ty |-> "copy_img", src |-> <<1, 1>>, dst |-> d] : d \in {<<1, 1>>, <<1, 2>>}}
PlainCmds ==
  {[ty |-> t] : t \in {"copy_buf2img", "copy_img2buf", "dispatch", "draw",
                       "draw_indexed", "write_timestamp", "begin_pass",
                       "end_pass", "unknown"}}
\* A barrier names, for the state before it and the state after it, how the
\* resource is used and how the device accesses it.
BufBarrierCmd(src_usage, src_dev_access, dst_usage, dst_dev_access) ==
  [ty |-> "buf_barrier",
   src_usage |-> src_usage, src_dev_access |-> src_dev_access,
   dst_usage |-> dst_usage, dst_dev_access |-> dst_dev_access]
ImgBarrierCmd(src_usage, src_dev_access, dst_usage, dst_dev_access) ==
  [ty |-> "img_barrier",
   src_usage |-> src_usage, src_dev_access |-> src_dev_access,
   dst_usage |-> dst_usage, dst_dev_access |-> dst_dev_access]
Commands ==
  SetSubmitTypeCmds \cup InlineTransactCmds \cup CopyBufCmds \cup CopyImgCmds
    \cup PlainCmds
    \cup {BufBarrierCmd({"STORAGE"}, {"WRITE"}, {"STORAGE"}, {"READ"}),
          ImgBarrierCmd({}, {}, {"STAGING"}, {"WRITE"})}

\* The commands used when the device runs beside the host: one of each kind
\* of effect on the submit details (open a class, inherit the class, fail).
DevCommands ==
  {[ty |-> "dispatch"], [ty |-> "draw"], [ty |-> "copy_buf2img"],
   [ty |-> "set_submit_ty", submit_ty |-> L_SUBMIT_TYPE_COMPUTE],
   [ty |-> "copy_buf", src_size |-> 1, dst_size |-> 2]}

\* A MemoryAccess is the set of its bits.
L_MEMORY_ACCESS_NONE == {}
L_MEMORY_ACCESS_READ_ONLY == {"READ"}
L_MEMORY_ACCESS_WRITE_ONLY == {"WRITE"}
MemoryAccesses == SUBSET {"READ", "WRITE"}
L_MEMORY_ACCESS_READ_WRITE == {"READ", "WRITE"}

(***************************************************************************)
(* The instance.  inst, physdevs and physdev_descs are globals of the      *)
(* module; layers is a static of initialize.                               *)
(***************************************************************************)
NoInstance ==
  [inst |-> VK_NULL_HANDLE, physdevs |-> <<>>, physdev_descs |-> <<>>,
   layers |-> <<>>, warn |-> ""]

\* The physical devices are numbered from 1.  The description of one is made
\* from its name, its type and its API version.
PhysDevDesc(physdev) == <<"deviceName", "deviceType", "apiVersion", physdev>>

\* How far a call of initialize gets: a VK_ASSERT throws before the layers
\* are looked at, vkCreateInstance fails, the count of physical devices
\* cannot be had, the list of them cannot be had, or all goes well.
InitializeOutcomes ==
  {"throw_enumerate", "throw_create", "throw_count", "throw_list", "done"}

\* An initialize that does not look at inst.
initialize_of_again(v, o, validation, nphysdev) ==
  LET layers == IF validation /\ o # "throw_enumerate"
                   /\ Len(v.layers) < MaxLayers
                THEN Append(v.layers, "VK_LAYER_KHRONOS_validation")
                ELSE v.layers
      l == [v EXCEPT !.layers = layers]
      i == [l EXCEPT !.inst = 1]
  IN CASE o = "throw_enumerate" -> [ok |-> FALSE, vk |-> v]
       [] o = "throw_create" -> [ok |-> FALSE, vk |-> l]
       [] o = "throw_count" -> [ok |-> FALSE, vk |-> i]
       [] o = "throw_list" ->
            [ok |-> FALSE,
             vk |-> [i EXCEPT !.physdevs = [k \in 1..nphysdev |->
                                              VK_NULL_HANDLE]]]
       [] OTHER ->
            [ok |-> TRUE,
             vk |-> [i EXCEPT !.physdevs = [k \in 1..nphysdev |-> k],
                              !.physdev_descs =
                                @ \o [k \in 1..nphysdev |-> PhysDevDesc(k)]]]

\* initialize on the module state v.  o is how far the driver lets it get,
\* validation whether the validation layer is found (in a build with
\* assertions), nphysdev the number of physical devices.
initialize_of(v, o, validation, nphysdev) ==
  IF v.inst # VK_NULL_HANDLE
  THEN [ok |-> TRUE,
        vk |-> [v EXCEPT
                  !.warn = "ignored redundant vulkan module initialization"]]
  ELSE LET layers == IF validation /\ o # "throw_enumerate"
                        /\ Len(v.layers) < MaxLayers
                     THEN Append(v.layers, "VK_LAYER_KHRONOS_validation")
                     ELSE v.layers
           l == [v EXCEPT !.layers = layers]
           i == [l EXCEPT !.inst = 1]
       IN CASE o = "throw_enumerate" -> [ok |-> FALSE, vk |-> v]
            [] o = "throw_create" -> [ok |-> FALSE, vk |-> l]
            [] o = "throw_count" -> [ok |-> FALSE, vk |-> i]
            [] o = "throw_list" ->
                 [ok |-> FALSE,
                  vk |-> [i EXCEPT !.physdevs = [k \in 1..nphysdev |->
                                                   VK_NULL_HANDLE]]]
            [] OTHER ->
                 [ok |-> TRUE,
                  vk |-> [i EXCEPT !.physdevs = [k \in 1..nphysdev |-> k],
                                   !.physdev_descs =
                                     @ \o [k \in 1..nphysdev |->
                                             PhysDevDesc(k)]]]

\* The module after an initialize that found every physical device.
Initialized == initialize_of(NoInstance, "done", FALSE, MaxPhysDevs).vk

initialize ==
  /\ pc = "idle"
  /\ \E o \in InitializeOutcomes, validation \in BOOLEAN,
        nphysdev \in 0..MaxPhysDevs :
       LET r == initialize_of(vk, o, validation, nphysdev)
       IN /\ vk' = r.vk
          /\ err' = IF r.ok THEN err ELSE "VkException"
  /\ UNCHANGED <<mem_prop, bufs, imgs, rsc_dev, task_vars, qfam_props, ctxt,
                 pc, transact, cmds, cmd_drain, tx, dev, queue, fence, lost,
                 ncall, ntransact>>

(***************************************************************************)
(* The Context.  A queue family is the set of its capability bits; family  *)
(* i of the vector qfam_props has index i - 1 on the device.               *)
(***************************************************************************)
VK_QUEUE_GRAPHICS_BIT == "GRAPHICS"
VK_QUEUE_COMPUTE_BIT == "COMPUTE"
VK_QUEUE_TRANSFER_BIT == "TRANSFER"
QueueFlagBits ==
  {VK_QUEUE_GRAPHICS_BIT, VK_QUEUE_COMPUTE_BIT, VK_QUEUE_TRANSFER_BIT}

count_set_bits(queue_flags) == Cardinality(queue_flags)

\* The families the physical device may report: up to MaxQfams families,
\* each with some capability bits.
QfamProps ==
  UNION {[1..n -> (SUBSET QueueFlagBits) \ {{}}] : n \in 0..MaxQfams}

\* The search of create_ctxt through qfam_map, from the bucket of nset_bit
\* capability bits down: the first family of a bucket, in index order, that
\* has all the required bits.
RECURSIVE qfam_idx_alloc(_, _, _)
qfam_idx_alloc(props, req_queue_flags, nset_bit) ==
  IF nset_bit < 0 THEN VK_QUEUE_FAMILY_IGNORED
  ELSE LET hit == {i \in 1..Len(props) :
                     /\ count_set_bits(props[i]) = nset_bit
                     /\ req_queue_flags \subseteq props[i]}
       IN IF hit # {}
          THEN (CHOOSE i \in hit : \A j \in hit : i <= j) - 1
          ELSE qfam_idx_alloc(props, req_queue_flags, nset_bit - 1)

\* The required bits of a submit class (submit_ty_reqs).
req_queue_flags_of(submit_ty) ==
  IF submit_ty = L_SUBMIT_TYPE_GRAPHICS
  THEN {VK_QUEUE_GRAPHICS_BIT} ELSE {VK_QUEUE_COMPUTE_BIT}

\* queue_allocs that takes the first family, in index order, with the
\* required bits.
queue_allocs_first_family(props) ==
  [submit_ty \in {L_SUBMIT_TYPE_GRAPHICS, L_SUBMIT_TYPE_COMPUTE} |->
     LET hit == {i \in 1..Len(props) :
                   req_queue_flags_of(submit_ty) \subseteq props[i]}
     IN IF hit = {} THEN VK_QUEUE_FAMILY_IGNORED
        ELSE (CHOOSE i \in hit : \A j \in hit : i <= j) - 1]

\* queue_allocs that takes a family with the fewest bits among those with
\* the required bits.
queue_allocs_fewest(props) ==
  [submit_ty \in {L_SUBMIT_TYPE_GRAPHICS, L_SUBMIT_TYPE_COMPUTE} |->
     LET hit == {i \in 1..Len(props) :
                   req_queue_flags_of(submit_ty) \subseteq props[i]}
     IN IF hit = {} THEN VK_QUEUE_FAMILY_IGNORED
        ELSE (CHOOSE i \in hit :
                \A j \in hit :
                  \/ count_set_bits(props[i]) < count_set_bits(props[j])
                  \/ count_set_bits(props[i]) = count_set_bits(props[j])
                       /\ i <= j) - 1]

queue_allocs(props) ==
  [submit_ty \in {L_SUBMIT_TYPE_GRAPHICS, L_SUBMIT_TYPE_COMPUTE} |->
     qfam_idx_alloc(props, req_queue_flags_of(submit_ty),
                    Cardinality(QueueFlagBits))]

(***************************************************************************)
(* Memory types.  A memory type is the set of its property flags; type i   *)
(* of the vector mem_prop has index i - 1 on the device.                   *)
(***************************************************************************)
\* The property flags a memory type of the device may have: those
\* _get_mem_prior knows, device-local only, and none.
MemoryPropertyFlags ==
  {{"HOST_VISIBLE", "HOST_CACHED", "HOST_COHERENT"},
   {"HOST_VISIBLE", "HOST_CACHED"},
   {"HOST_VISIBLE", "HOST_COHERENT"},
   {"DEVICE_LOCAL", "HOST_VISIBLE", "HOST_COHERENT"},
   {"DEVICE_LOCAL", "HOST_VISIBLE", "HOST_CACHED"},
   {"DEVICE_LOCAL", "HOST_VISIBLE", "HOST_CACHED", "HOST_COHERENT"},
   {"DEVICE_LOCAL"},
   {}}

MemProps == UNION {[1..n -> MemoryPropertyFlags] : n \in 0..MaxMemTypes}

PRIORITY_LUT(host_access) ==
  IF host_access = L_MEMORY_ACCESS_READ_ONLY
  THEN <<{"HOST_VISIBLE", "HOST_CACHED", "HOST_COHERENT"},
         {"HOST_VISIBLE", "HOST_CACHED"},
         {"HOST_VISIBLE", "HOST_COHERENT"},
         {"DEVICE_LOCAL", "HOST_VISIBLE", "HOST_COHERENT"},
         {"DEVICE_LOCAL", "HOST_VISIBLE", "HOST_CACHED"},
         {"DEVICE_LOCAL", "HOST_VISIBLE", "HOST_CACHED", "HOST_COHERENT"}>>
  ELSE IF host_access = L_MEMORY_ACCESS_WRITE_ONLY
  THEN <<{"DEVICE_LOCAL", "HOST_VISIBLE", "HOST_COHERENT"},
         {"DEVICE_LOCAL", "HOST_VISIBLE", "HOST_CACHED", "HOST_COHERENT"},
         {"DEVICE_LOCAL", "HOST_VISIBLE", "HOST_CACHED"},
         {"HOST_VISIBLE", "HOST_COHERENT"},
         {"HOST_VISIBLE", "HOST_CACHED", "HOST_COHERENT"},
         {"HOST_VISIBLE", "HOST_CACHED"}>>
  ELSE <<{"DEVICE_LOCAL", "HOST_VISIBLE", "HOST_CACHED", "HOST_COHERENT"},
         {"DEVICE_LOCAL", "HOST_VISIBLE", "HOST_COHERENT"},
         {"DEVICE_LOCAL", "HOST_VISIBLE", "HOST_CACHED"},
         {"HOST_VISIBLE", "HOST_COHERENT"},
         {"HOST_VISIBLE", "HOST_CACHED", "HOST_COHERENT"},
         {"HOST_VISIBLE", "HOST_CACHED"}>>

\* The priority of a memory type for a host access pattern: higher is better.
_get_mem_prior(host_access, mem_prop_flags) ==
  IF host_access = L_MEMORY_ACCESS_NONE
  THEN IF "DEVICE_LOCAL" \in mem_prop_flags THEN 1 ELSE 0
  ELSE LET lut == PRIORITY_LUT(host_access)
           hit == {i \in 1..Len(lut) : mem_prop_flags = lut[i]}
       IN IF hit # {}
          THEN Len(lut) - ((CHOOSE i \in hit : TRUE) - 1)
          ELSE 0

\* The orders of the memory-type indices 0..n-1.
Arrangements(n) ==
  {p \in [1..n -> 0..(n - 1)] : \A i, j \in 1..n : p[i] = p[j] => i = j}

\* A sort that leaves the indices as they are.
sorted_mem_ty_idxs_unsorted(props, host_access) ==
  {[i \in 1..Len(props) |-> i - 1]}

\* What std::sort may leave in mem_ty_idxs for a host access pattern: the
\* indices with the priorities going down; indices of equal priority may
\* come in any order.
sorted_mem_ty_idxs(props, host_access) ==
  LET priors == [i \in 1..Len(props) |-> _get_mem_prior(host_access, props[i])]
  IN {p \in Arrangements(Len(props)) :
        \A k \in 1..(Len(props) - 1) :
          priors[p[k] + 1] >= priors[p[k + 1] + 1]}

\* The values create_ctxt may store in Context::mem_ty_idxs_by_host_access.
mem_ty_idxs_by_host_access(props) ==
  {m \in [MemoryAccesses -> Arrangements(Len(props))] :
     \A host_access \in MemoryAccesses :
       m[host_access] \in sorted_mem_ty_idxs(props, host_access)}

\* No Context yet.
NoContext ==
  [live |-> FALSE,
   queue_allocs |-> [submit_ty \in {L_SUBMIT_TYPE_GRAPHICS, L_SUBMIT_TYPE_COMPUTE}
                       |-> VK_QUEUE_FAMILY_IGNORED],
   mem_ty_idxs_by_host_access |-> [host_access \in MemoryAccesses |-> <<>>]]

\* Nothing has been made from the Context.
NoResources ==
  /\ bufs = <<>>
  /\ imgs = <<>>
  /\ rsc_dev = <<>>
  /\ tasks = <<>>
  /\ rsc_pools = <<>>
  /\ passes = <<>>
  /\ timestamps = <<>>

(***************************************************************************)
(* The translator works on a "world" record w: the TransactionLike         *)
(* (level, submit_details), what the driver holds for it (recorded: the    *)
(* content of each detail's command buffer; log: the driver calls made, in *)
(* order; marks: for each vkCmd* call, the command buffer it recorded into *)
(* and how many calls of the log came before it), the device objects and   *)
(* queue, and the outcome of the call (ok, err, ret).                      *)
(***************************************************************************)
EmptyTransact ==
  [level |-> VK_COMMAND_BUFFER_LEVEL_PRIMARY, submit_details |-> <<>>,
   recorded |-> <<>>, log |-> <<>>, marks |-> <<>>]

World(t, d, q, call) ==
  [level |-> t.level, submit_details |-> t.submit_details,
   recorded |-> t.recorded, log |-> t.log, marks |-> t.marks,
   dev |-> d, queue |-> q, call |-> call, ctxt |-> ctxt,
   ok |-> TRUE, err |-> "", ret |-> VK_NULL_HANDLE]

TransactOf(w) ==
  [level |-> w.level, submit_details |-> w.submit_details,
   recorded |-> w.recorded, log |-> w.log, marks |-> w.marks]

\* liong::assert / liong::panic: the call ends with an exception.
Panic(w, msg) == [w EXCEPT !.ok = FALSE, !.err = msg]

\* Context::get_submit_detail: a class that create_ctxt found no queue family
\* for is unsupported, and asking for it fails.
get_submit_detail(w, submit_ty) ==
  IF w.ctxt.queue_allocs[submit_ty] = VK_QUEUE_FAMILY_IGNORED
  THEN Panic(w, "unsupported")
  ELSE w

_begin_cmdbuf(w, submit_detail) ==
  [w EXCEPT !.dev[submit_detail.cmdbuf].cmdbuf = "recording",
            !.log = Append(@, <<"begin", submit_detail.cmdbuf>>)]

_end_cmdbuf(w, submit_detail) ==
  [w EXCEPT !.dev[submit_detail.cmdbuf].cmdbuf = "executable",
            !.log = Append(@, <<"end", submit_detail.cmdbuf>>)]

\* _push_transact_submit_detail that chains nothing: no detail waits.
_push_transact_submit_detail_unchained(w, submit_ty) ==
  LET h == Len(w.dev) + 1
      submit_detail ==
        [submit_ty |-> submit_ty, cmd_pool |-> h, cmdbuf |-> h,
         wait_sema |-> VK_NULL_HANDLE, signal_sema |-> h]
  IN [w EXCEPT
        !.dev = Append(@, [pool |-> 0, sema |-> 0, signaled |-> FALSE,
                           cmdbuf |-> "initial", level |-> w.level]),
        !.submit_details = Append(@, submit_detail),
        !.recorded = Append(@, <<>>),
        !.log = Append(@, <<"push", h>>)]

_push_transact_submit_detail(w, submit_ty) ==
  LET h == Len(w.dev) + 1
      submit_detail ==
        [submit_ty |-> submit_ty,
         cmd_pool |-> h,
         cmdbuf |-> h,
         wait_sema |-> IF w.submit_details = <<>> THEN VK_NULL_HANDLE
                       ELSE Last(w.submit_details).signal_sema,
         signal_sema |-> h]
  IN [w EXCEPT
        !.dev = Append(@, [pool |-> 0, sema |-> 0, signaled |-> FALSE,
                           cmdbuf |-> "initial", level |-> w.level]),
        !.submit_details = Append(@, submit_detail),
        !.recorded = Append(@, <<>>),
        !.log = Append(@, <<"push", h>>)]

\* _submit_transact_submit_detail that never fills in the wait semaphore.
_submit_transact_submit_detail_no_wait(w, submit_detail, fnc) ==
  [w EXCEPT
     !.queue = Append(@, [cmdbuf |-> submit_detail.cmdbuf,
                          wait_sema |-> VK_NULL_HANDLE,
                          signal_sema |-> submit_detail.signal_sema,
                          fence |-> fnc,
                          submit_ty |-> submit_detail.submit_ty,
                          call |-> w.call,
                          st |-> "queued"]),
     !.dev[submit_detail.cmdbuf].cmdbuf = "pending",
     !.log = Append(@, <<"submit", submit_detail.cmdbuf>>)]

\* _submit_transact_submit_detail that hands the drain's fence to every
\* vkQueueSubmit, boundary flushes included.
_submit_transact_submit_detail_always_fence(w, submit_detail, fnc) ==
  [w EXCEPT
     !.queue = Append(@, [cmdbuf |-> submit_detail.cmdbuf,
                          wait_sema |-> submit_detail.wait_sema,
                          signal_sema |-> submit_detail.signal_sema,
                          fence |-> FenceHandle,
                          submit_ty |-> submit_detail.submit_ty,
                          call |-> w.call,
                          st |-> "queued"]),
     !.dev[submit_detail.cmdbuf].cmdbuf = "pending",
     !.log = Append(@, <<"submit", submit_detail.cmdbuf>>)]

\* _submit_transact_submit_detail that drops the fence it is given.
_submit_transact_submit_detail_no_fence(w, submit_detail, fnc) ==
  [w EXCEPT
     !.queue = Append(@, [cmdbuf |-> submit_detail.cmdbuf,
                          wait_sema |-> submit_detail.wait_sema,
                          signal_sema |-> submit_detail.signal_sema,
                          fence |-> VK_NULL_HANDLE,
                          submit_ty |-> submit_detail.submit_ty,
                          call |-> w.call,
                          st |-> "queued"]),
     !.dev[submit_detail.cmdbuf].cmdbuf = "pending",
     !.log = Append(@, <<"submit", submit_detail.cmdbuf>>)]

_submit_transact_submit_detail(w, submit_detail, fnc) ==
  [w EXCEPT
     !.queue = Append(@, [cmdbuf |-> submit_detail.cmdbuf,
                          wait_sema |-> submit_detail.wait_sema,
                          signal_sema |-> submit_detail.signal_sema,
                          fence |-> fnc,
                          submit_ty |-> submit_detail.submit_ty,
                          call |-> w.call,
                          st |-> "queued"]),
     !.dev[submit_detail.cmdbuf].cmdbuf = "pending",
     !.log = Append(@, <<"submit", submit_detail.cmdbuf>>)]

\* _get_cmdbuf without the "submit type is unchanged" shortcut: every command
\* that names a class opens a new submit detail.
_get_cmdbuf_always_opens(w, submit_ty0) ==
  IF submit_ty0 = L_SUBMIT_TYPE_ANY /\ w.submit_details = <<>>
  THEN Panic(w, "cannot infer submit type for submit-type-independent command")
  ELSE
    LET submit_ty == IF submit_ty0 = L_SUBMIT_TYPE_ANY
                     THEN Last(w.submit_details).submit_ty
                     ELSE submit_ty0
        opened(v) ==
          LET p == _push_transact_submit_detail(v, submit_ty)
              b == _begin_cmdbuf(p, Last(p.submit_details))
          IN [b EXCEPT !.ret = Last(b.submit_details).cmdbuf]
    IN IF w.submit_details # <<>>
       THEN LET last_submit == Last(w.submit_details)
            IN IF submit_ty0 = L_SUBMIT_TYPE_ANY
               THEN [w EXCEPT !.ret = last_submit.cmdbuf]
               ELSE LET e == _end_cmdbuf(w, last_submit)
                        s == IF w.level = VK_COMMAND_BUFFER_LEVEL_PRIMARY
                             THEN _submit_transact_submit_detail(
                                    e, last_submit, VK_NULL_HANDLE)
                             ELSE e
                    IN opened(s)
       ELSE opened(w)

\* _get_cmdbuf that submits the ended command buffer whatever the level.
_get_cmdbuf_submits_any_level(w, submit_ty0) ==
  IF submit_ty0 = L_SUBMIT_TYPE_ANY /\ w.submit_details = <<>>
  THEN Panic(w, "cannot infer submit type for submit-type-independent command")
  ELSE
    LET submit_ty == IF submit_ty0 = L_SUBMIT_TYPE_ANY
                     THEN Last(w.submit_details).submit_ty
                     ELSE submit_ty0
        opened(v) ==
          LET p == _push_transact_submit_detail(v, submit_ty)
              b == _begin_cmdbuf(p, Last(p.submit_details))
          IN [b EXCEPT !.ret = Last(b.submit_details).cmdbuf]
    IN IF w.submit_details # <<>>
       THEN LET last_submit == Last(w.submit_details)
            IN IF submit_ty = last_submit.submit_ty
               THEN [w EXCEPT !.ret = last_submit.cmdbuf]
               ELSE opened(_submit_transact_submit_detail(
                             _end_cmdbuf(w, last_submit), last_submit,
                             VK_NULL_HANDLE))
       ELSE opened(w)

\* _get_cmdbuf that opens a graphics detail for a class-any command when
\* there is no detail yet, instead of failing.
_get_cmdbuf_any_defaults(w, submit_ty0) ==
  LET submit_ty == IF submit_ty0 # L_SUBMIT_TYPE_ANY THEN submit_ty0
                   ELSE IF w.submit_details = <<>> THEN L_SUBMIT_TYPE_GRAPHICS
                   ELSE Last(w.submit_details).submit_ty
      opened(v) ==
        LET p == _push_transact_submit_detail(v, submit_ty)
            b == _begin_cmdbuf(p, Last(p.submit_details))
        IN [b EXCEPT !.ret = Last(b.submit_details).cmdbuf]
  IN IF w.submit_details # <<>>
     THEN LET last_submit == Last(w.submit_details)
          IN IF submit_ty = last_submit.submit_ty
             THEN [w EXCEPT !.ret = last_submit.cmdbuf]
             ELSE LET e == _end_cmdbuf(w, last_submit)
                      s == IF w.level = VK_COMMAND_BUFFER_LEVEL_PRIMARY
                           THEN _submit_transact_submit_detail(
                                  e, last_submit, VK_NULL_HANDLE)
                           ELSE e
                  IN opened(s)
     ELSE opened(w)


\* _get_cmdbuf that, after a class change, hands back the command buffer it
\* has just ended instead of the one it has just begun.
_get_cmdbuf_stale(w, submit_ty0) ==
  IF submit_ty0 = L_SUBMIT_TYPE_ANY /\ w.submit_details = <<>>
  THEN Panic(w, "cannot infer submit type for submit-type-independent command")
  ELSE
    LET submit_ty == IF submit_ty0 = L_SUBMIT_TYPE_ANY
                     THEN Last(w.submit_details).submit_ty
                     ELSE submit_ty0
        opened(v) ==
          LET p == _push_transact_submit_detail(v, submit_ty)
              b == _begin_cmdbuf(p, Last(p.submit_details))
          IN [b EXCEPT !.ret = Last(b.submit_details).cmdbuf]
        g == get_submit_detail(w, submit_ty)
    IN IF ~g.ok THEN g
       ELSE IF w.submit_details # <<>>
       THEN LET last_submit == Last(w.submit_details)
            IN IF submit_ty = last_submit.submit_ty
               THEN [w EXCEPT !.ret = last_submit.cmdbuf]
               ELSE LET e == _end_cmdbuf(w, last_submit)
                        s == IF w.level = VK_COMMAND_BUFFER_LEVEL_PRIMARY
                             THEN _submit_transact_submit_detail(
                                    e, last_submit, VK_NULL_HANDLE)
                             ELSE e
                    IN [opened(s) EXCEPT !.ret = last_submit.cmdbuf]
       ELSE opened(w)


\* _get_cmdbuf that takes the class any as a class of its own instead of
\* reading it as the class of the last detail.
_get_cmdbuf_uninferred(w, submit_ty0) ==
  LET submit_ty == submit_ty0
      opened(v) ==
        LET p == _push_transact_submit_detail(v, submit_ty)
            b == _begin_cmdbuf(p, Last(p.submit_details))
        IN [b EXCEPT !.ret = Last(b.submit_details).cmdbuf]
      g == IF submit_ty = L_SUBMIT_TYPE_ANY THEN w
           ELSE get_submit_detail(w, submit_ty)
  IN IF ~g.ok THEN g
     ELSE IF w.submit_details # <<>>
     THEN LET last_submit == Last(w.submit_details)
          IN IF submit_ty = last_submit.submit_ty
             THEN [w EXCEPT !.ret = last_submit.cmdbuf]
             ELSE LET e == _end_cmdbuf(w, last_submit)
                      s == IF w.level = VK_COMMAND_BUFFER_LEVEL_PRIMARY
                           THEN _submit_transact_submit_detail(
                                  e, last_submit, VK_NULL_HANDLE)
                           ELSE e
                  IN opened(s)
     ELSE opened(w)


_get_cmdbuf(w, submit_ty0) ==
  IF submit_ty0 = L_SUBMIT_TYPE_ANY /\ w.submit_details = <<>>
  THEN Panic(w, "cannot infer submit type for submit-type-independent command")
  ELSE
    LET submit_ty == IF submit_ty0 = L_SUBMIT_TYPE_ANY
                     THEN Last(w.submit_details).submit_ty
                     ELSE submit_ty0
        opened(v) ==
          LET p == _push_transact_submit_detail(v, submit_ty)
              b == _begin_cmdbuf(p, Last(p.submit_details))
          IN [b EXCEPT !.ret = Last(b.submit_details).cmdbuf]
        g == get_submit_detail(w, submit_ty)
    IN IF ~g.ok THEN g
       ELSE IF w.submit_details # <<>>
       THEN LET last_submit == Last(w.submit_details)
            IN IF submit_ty = last_submit.submit_ty
               THEN [w EXCEPT !.ret = last_submit.cmdbuf]
               ELSE LET e == _end_cmdbuf(w, last_submit)
                        s == IF w.level = VK_COMMAND_BUFFER_LEVEL_PRIMARY
                             THEN _submit_transact_submit_detail(
                                    e, last_submit, VK_NULL_HANDLE)
                             ELSE e
                    IN opened(s)
       ELSE opened(w)

\* A vkCmd* that puts op in front of what cmdbuf holds.
vkCmd_in_front(w, cmdbuf, op) ==
  LET i == CHOOSE k \in 1..Len(w.submit_details) :
             w.submit_details[k].cmdbuf = cmdbuf
  IN [w EXCEPT !.recorded[i] = <<op>> \o @,
               !.marks = Append(@, <<cmdbuf, Len(w.log)>>)]

\* vkCmd*(cmdbuf, ...): the driver appends op to the content of cmdbuf.
vkCmd(w, cmdbuf, op) ==
  LET i == CHOOSE k \in 1..Len(w.submit_details) :
             w.submit_details[k].cmdbuf = cmdbuf
  IN [w EXCEPT !.recorded[i] = Append(@, op),
               !.marks = Append(@, <<cmdbuf, Len(w.log)>>)]

\* A command that takes a command buffer of class submit_ty and records op.
RecordInto(w, submit_ty, op) ==
  LET g == _get_cmdbuf(w, submit_ty)
  IN IF g.ok THEN vkCmd(g, g.ret, op) ELSE g

\* _record_cmd_set_submit_ty that does nothing.
_record_cmd_set_submit_ty_ignored(w, cmd) == w

_record_cmd_set_submit_ty(w, cmd) == _get_cmdbuf(w, cmd.submit_ty)

RECURSIVE InlineFrom(_, _, _)
InlineFrom(w, sub, i) ==
  IF i > Len(sub) \/ ~w.ok THEN w
  ELSE LET g == _get_cmdbuf(w, sub[i].submit_ty)
       IN IF g.ok
          THEN InlineFrom(
                 vkCmd(g, g.ret,
                       [ty |-> "execute_commands", cmdbuf |-> sub[i].cmdbuf]),
                 sub, i + 1)
          ELSE g

\* _record_cmd_inline_transact that executes every secondary command buffer
\* in the outer detail of the inlined transaction's first class.
_record_cmd_inline_transact_first_class(w, cmd, subtransact) ==
  IF w.level # VK_COMMAND_BUFFER_LEVEL_PRIMARY
  THEN Panic(w, "nested inline transaction is not allowed")
  ELSE IF subtransact.submit_details = <<>> THEN w
  ELSE LET RECURSIVE Into(_, _)
           Into(v, i) ==
             IF i > Len(subtransact.submit_details) \/ ~v.ok THEN v
             ELSE Into(RecordInto(v, subtransact.submit_details[1].submit_ty,
                                  [ty |-> "execute_commands",
                                   cmdbuf |-> subtransact.submit_details[i].cmdbuf]),
                       i + 1)
       IN Into(w, 1)

\* _record_cmd_inline_transact without the check of the outer level.
_record_cmd_inline_transact_any_level(w, cmd, subtransact) ==
  InlineFrom(w, subtransact.submit_details, 1)

\* _record_cmd_inline_transact that uses each secondary command buffer up:
\* once executed, the command buffer is invalid.
_record_cmd_inline_transact_consuming(w, cmd, subtransact) ==
  IF w.level # VK_COMMAND_BUFFER_LEVEL_PRIMARY
  THEN Panic(w, "nested inline transaction is not allowed")
  ELSE LET v == InlineFrom(w, subtransact.submit_details, 1)
       IN [v EXCEPT !.dev =
             [h \in 1..Len(v.dev) |->
                IF \E i \in 1..Len(subtransact.submit_details) :
                     subtransact.submit_details[i].cmdbuf = h
                THEN [v.dev[h] EXCEPT !.cmdbuf = "invalid"]
                ELSE v.dev[h]]]

_record_cmd_inline_transact(w, cmd, subtransact) ==
  IF w.level # VK_COMMAND_BUFFER_LEVEL_PRIMARY
  THEN Panic(w, "nested inline transaction is not allowed")
  ELSE InlineFrom(w, subtransact.submit_details, 1)

\* _record_cmd_copy_buf without the size check.
_record_cmd_copy_buf_unchecked(w, cmd) == RecordInto(w, L_SUBMIT_TYPE_ANY, cmd)

_record_cmd_copy_buf(w, cmd) ==
  IF cmd.src_size # cmd.dst_size
  THEN Panic(w, "buffer copy size mismatched")
  ELSE RecordInto(w, L_SUBMIT_TYPE_ANY, cmd)

_record_cmd_copy_img(w, cmd) ==
  IF cmd.src # cmd.dst
  THEN Panic(w, "image copy size mismatched")
  ELSE RecordInto(w, L_SUBMIT_TYPE_ANY, cmd)

(***************************************************************************)
(* Barriers.  Usages, accesses, access masks and stage masks are sets of   *)
(* bits; a usage "==" one bit in the code is the set holding that bit.     *)
(* A _make_*_barrier_params operator gets the caller's variables and       *)
(* returns their values after the call, with the outcome of the call.      *)
(***************************************************************************)
BufferUsages ==
  {{}, {"STAGING"}, {"VERTEX"}, {"INDEX"}, {"UNIFORM"}, {"STORAGE"},
   {"VERTEX", "INDEX"}}
ImageUsages ==
  {{}, {"STAGING"}, {"ATTACHMENT"}, {"SAMPLED"}, {"STORAGE"}, {"PRESENT"},
   {"SAMPLED", "STORAGE"}}

BarrierParams(access, stage, layout) ==
  [ok |-> TRUE, err |-> "", access |-> access, stage |-> stage,
   layout |-> layout]
BarrierPanic(access, stage, layout, msg) ==
  [ok |-> FALSE, err |-> msg, access |-> access, stage |-> stage,
   layout |-> layout]

ShaderStagesOfBuffers == {"ALL_GRAPHICS", "COMPUTE_SHADER"}
ShaderStagesOfImages == {"FRAGMENT_SHADER", "COMPUTE_SHADER"}

\* _make_buf_barrier_params that takes every pair.
_make_buf_barrier_params_unchecked(usage, dev_access, access, stage) ==
  BarrierParams(access, stage, "")

\* Buffers have no layout.  `stage` is the function's own copy of the
\* caller's variable (it is passed by value): what is returned as stage here
\* is that copy, which the caller never sees.
_make_buf_barrier_params(usage, dev_access, access, stage) ==
  LET set(a, st) == BarrierParams(a, st, "")
      panic(msg) == BarrierPanic(access, stage, "", msg)
  IN IF dev_access = L_MEMORY_ACCESS_NONE THEN set(access, stage)
     ELSE IF usage = {}
     THEN panic("buffer barrier must be specified with a usage")
     ELSE IF usage = {"STAGING"}
     THEN IF dev_access = L_MEMORY_ACCESS_READ_ONLY
          THEN set({"TRANSFER_READ"}, {"TRANSFER"})
          ELSE IF dev_access = L_MEMORY_ACCESS_WRITE_ONLY
          THEN set({"TRANSFER_WRITE"}, {"TRANSFER"})
          ELSE panic("buffer used for staging can't be both read and written")
     ELSE IF usage = {"VERTEX"}
     THEN IF dev_access = L_MEMORY_ACCESS_READ_ONLY
          THEN set({"VERTEX_ATTRIBUTE_READ"}, {"VERTEX_INPUT"})
          ELSE panic("buffer used for vertex input cannot be written")
     ELSE IF usage = {"INDEX"}
     THEN IF dev_access = L_MEMORY_ACCESS_READ_ONLY
          THEN set({"INDEX_READ"}, {"VERTEX_INPUT"})
          ELSE panic("buffer used for index input cannot be written")
     ELSE IF usage = {"UNIFORM"}
     THEN IF dev_access = L_MEMORY_ACCESS_READ_ONLY
          THEN set({"UNIFORM_READ"},
                   {"VERTEX_SHADER", "FRAGMENT_SHADER", "COMPUTE_SHADER"})
          ELSE panic("buffer used for uniform cannot be written")
     ELSE IF usage = {"STORAGE"}
     THEN IF dev_access = L_MEMORY_ACCESS_READ_ONLY
          THEN set({"SHADER_READ"}, ShaderStagesOfBuffers)
          ELSE IF dev_access = L_MEMORY_ACCESS_WRITE_ONLY
          THEN set({"SHADER_WRITE"}, ShaderStagesOfBuffers)
          ELSE set({"SHADER_READ", "SHADER_WRITE"}, ShaderStagesOfBuffers)
     ELSE panic("cannot make buffer barrier with a set of usage")

\* The branches the source and the destination side of an image barrier
\* share: every usage but L_IMAGE_USAGE_NONE.  att_access is the
\* access mask of an attachment that is not read-only.
ImgBarrierUsageParams(usage, dev_access, access, stage, layout, att_access) ==
  LET panic(msg) == BarrierPanic(access, stage, layout, msg)
  IN IF usage = {"STAGING"}
     THEN IF dev_access = L_MEMORY_ACCESS_READ_ONLY
          THEN BarrierParams({"TRANSFER_READ"}, {"TRANSFER"},
                             "TRANSFER_SRC_OPTIMAL")
          ELSE IF dev_access = L_MEMORY_ACCESS_WRITE_ONLY
          THEN BarrierParams({"TRANSFER_WRITE"}, {"TRANSFER"},
                             "TRANSFER_DST_OPTIMAL")
          ELSE panic("image used for staging can't be both read and written")
     ELSE IF usage = {"ATTACHMENT"}
     THEN IF dev_access = L_MEMORY_ACCESS_READ_ONLY
          THEN BarrierParams({"INPUT_ATTACHMENT_READ"}, {"FRAGMENT_SHADER"},
                             "COLOR_ATTACHMENT_OPTIMAL")
          ELSE BarrierParams(att_access, {"COLOR_ATTACHMENT_OUTPUT"},
                             "COLOR_ATTACHMENT_OPTIMAL")
     ELSE IF usage = {"SAMPLED"}
     THEN IF dev_access = L_MEMORY_ACCESS_READ_ONLY
          THEN BarrierParams({"SHADER_READ"}, ShaderStagesOfImages,
                             "SHADER_READ_ONLY_OPTIMAL")
          ELSE panic("image used for sampling cannot be written")
     ELSE IF usage = {"STORAGE"}
     THEN IF dev_access = L_MEMORY_ACCESS_READ_ONLY
          THEN BarrierParams({"SHADER_READ"}, ShaderStagesOfImages, "GENERAL")
          ELSE IF dev_access = L_MEMORY_ACCESS_WRITE_ONLY
          THEN BarrierParams({"SHADER_WRITE"}, ShaderStagesOfImages, "GENERAL")
          ELSE BarrierParams({"SHADER_READ", "SHADER_WRITE"},
                             ShaderStagesOfImages, "GENERAL")
     ELSE IF usage = {"PRESENT"}
     THEN IF dev_access = L_MEMORY_ACCESS_READ_ONLY
          THEN BarrierParams({}, {"BOTTOM_OF_PIPE"}, "PRESENT_SRC_KHR")
          ELSE panic("image used for present cannot be written")
     ELSE panic("cannot make image barrier with a set of usage")

_make_img_barrier_src_params(usage, dev_access, access, stage, layout) ==
  IF dev_access = L_MEMORY_ACCESS_NONE
  THEN BarrierParams(access, stage, layout)
  ELSE IF usage = {}
  THEN BarrierParams({}, {"BOTTOM_OF_PIPE"}, "UNDEFINED")
  ELSE ImgBarrierUsageParams(usage, dev_access, access, stage, layout,
                             {"COLOR_ATTACHMENT_WRITE"})

\* _make_img_barrier_dst_params that never writes the layout.
_make_img_barrier_dst_params_kept(usage, dev_access, access, stage, layout) ==
  IF dev_access = L_MEMORY_ACCESS_NONE
  THEN BarrierParams(access, stage, layout)
  ELSE [ImgBarrierUsageParams(usage, dev_access, access, stage, layout,
                              {"COLOR_ATTACHMENT_READ"})
          EXCEPT !.layout = layout]

\* The L_IMAGE_USAGE_NONE branch is followed by `if`, not `else if`: after
\* it the chain of the other usages is gone through as well.
_make_img_barrier_dst_params(usage, dev_access, access, stage, layout) ==
  IF dev_access = L_MEMORY_ACCESS_NONE
  THEN BarrierParams(access, stage, layout)
  ELSE LET none == IF usage = {}
                   THEN BarrierParams({}, {"TOP_OF_PIPE"}, "UNDEFINED")
                   ELSE BarrierParams(access, stage, layout)
       IN ImgBarrierUsageParams(usage, dev_access, none.access, none.stage,
                                none.layout, {"COLOR_ATTACHMENT_READ"})

_record_cmd_buf_barrier(w, cmd) ==
  LET g == _get_cmdbuf(w, L_SUBMIT_TYPE_ANY)
      src == _make_buf_barrier_params(cmd.src_usage, cmd.src_dev_access,
                                      {}, {"BOTTOM_OF_PIPE"})
      dst == _make_buf_barrier_params(cmd.dst_usage, cmd.dst_dev_access,
                                      {}, {"TOP_OF_PIPE"})
  IN IF ~g.ok THEN g
     ELSE IF ~src.ok THEN Panic(g, src.err)
     ELSE IF ~dst.ok THEN Panic(g, dst.err)
     ELSE vkCmd(g, g.ret,
                [ty |-> "buf_barrier",
                 src_stage |-> {"BOTTOM_OF_PIPE"},
                 dst_stage |-> {"TOP_OF_PIPE"},
                 srcAccessMask |-> src.access,
                 dstAccessMask |-> dst.access])

_record_cmd_img_barrier(w, cmd) ==
  LET g == _get_cmdbuf(w, L_SUBMIT_TYPE_ANY)
      src == _make_img_barrier_src_params(cmd.src_usage, cmd.src_dev_access,
                                          {}, {"BOTTOM_OF_PIPE"}, "UNDEFINED")
      dst == _make_img_barrier_dst_params(cmd.dst_usage, cmd.dst_dev_access,
                                          {}, {"TOP_OF_PIPE"}, "UNDEFINED")
  IN IF ~g.ok THEN g
     ELSE IF ~src.ok THEN Panic(g, src.err)
     ELSE IF ~dst.ok THEN Panic(g, dst.err)
     ELSE vkCmd(g, g.ret,
                [ty |-> "img_barrier",
                 src_stage |-> src.stage,
                 dst_stage |-> dst.stage,
                 srcAccessMask |-> src.access,
                 dstAccessMask |-> dst.access,
                 oldLayout |-> src.layout,
                 newLayout |-> dst.layout])

_record_cmd_begin_pass(w, cmd) ==
  IF w.level # VK_COMMAND_BUFFER_LEVEL_PRIMARY
  THEN Panic(w, "assertion failed")
  ELSE RecordInto(w, L_SUBMIT_TYPE_GRAPHICS, cmd)

_record_cmd_end_pass(w, cmd) ==
  IF w.level # VK_COMMAND_BUFFER_LEVEL_PRIMARY
  THEN Panic(w, "assertion failed")
  ELSE RecordInto(w, L_SUBMIT_TYPE_GRAPHICS, cmd)

_record_cmd(w, cmd, subtransact) ==
  CASE cmd.ty = "set_submit_ty" -> _record_cmd_set_submit_ty(w, cmd)
    [] cmd.ty = "inline_transact" ->
         _record_cmd_inline_transact(w, cmd, subtransact)
    [] cmd.ty = "copy_buf2img" -> RecordInto(w, L_SUBMIT_TYPE_ANY, cmd)
    [] cmd.ty = "copy_img2buf" -> RecordInto(w, L_SUBMIT_TYPE_ANY, cmd)
    [] cmd.ty = "copy_buf" -> _record_cmd_copy_buf(w, cmd)
    [] cmd.ty = "copy_img" -> _record_cmd_copy_img(w, cmd)
    [] cmd.ty = "dispatch" -> RecordInto(w, L_SUBMIT_TYPE_COMPUTE, cmd)
    [] cmd.ty = "draw" -> RecordInto(w, L_SUBMIT_TYPE_GRAPHICS, cmd)
    [] cmd.ty = "draw_indexed" -> RecordInto(w, L_SUBMIT_TYPE_GRAPHICS, cmd)
    [] cmd.ty = "write_timestamp" -> RecordInto(w, L_SUBMIT_TYPE_ANY, cmd)
    [] cmd.ty = "buf_barrier" -> _record_cmd_buf_barrier(w, cmd)
    [] cmd.ty = "img_barrier" -> _record_cmd_img_barrier(w, cmd)
    [] cmd.ty = "begin_pass" -> _record_cmd_begin_pass(w, cmd)
    [] cmd.ty = "end_pass" -> _record_cmd_end_pass(w, cmd)
    [] OTHER -> w

(***************************************************************************)
(* Initial state: a context on a device whose one queue family does        *)
(* graphics and compute (create_ctxt) and a command drain                  *)
(* (create_cmd_drain) have been created, nothing has been recorded or      *)
(* submitted.                                                              *)
(***************************************************************************)
Init ==
  /\ pc = "idle"
  /\ transact = EmptyTransact
  /\ cmds = <<>>
  /\ cmd_drain = [submit_details |-> <<>>, fence |-> FenceHandle]
  /\ tx = [valid |-> FALSE, submit_details |-> <<>>]
  /\ dev = <<>>
  /\ queue = <<>>
  /\ fence = [signaled |-> FALSE, live |-> TRUE, by |-> 0]
  /\ lost = FALSE
  /\ err = ""
  /\ ncall = 0
  /\ ntransact = 0
  /\ qfam_props = <<{VK_QUEUE_GRAPHICS_BIT, VK_QUEUE_COMPUTE_BIT}>>
  /\ vk = Initialized
  /\ mem_prop = <<{"DEVICE_LOCAL"}>>
  /\ ctxt = [live |-> TRUE,
             queue_allocs |-> queue_allocs(qfam_props),
             mem_ty_idxs_by_host_access |->
               [host_access \in MemoryAccesses |-> <<0>>]]
  /\ NoResources

\* The loop body of submit_cmds and create_transact: _record_cmd(cmds[i]).
\* An inline-transaction command names the Transaction tx; a secondary
\* recording is refused before the Transaction it names is looked at.
\* A failed assertion unwinds the call: the local TransactionLike is dropped
\* (its vector is freed, no driver object is destroyed).
RecordCmd(cmd) ==
  /\ pc \in {"submit_cmds", "create_transact"}
  /\ Len(cmds) < MaxCmds
  /\ cmd.ty = "inline_transact" =>
       tx.valid \/ transact.level = VK_COMMAND_BUFFER_LEVEL_SECONDARY
  /\ LET w == _record_cmd(World(transact, dev, queue, ncall), cmd, tx)
     IN /\ dev' = w.dev
        /\ queue' = w.queue
        /\ IF w.ok
           THEN /\ transact' = TransactOf(w)
                /\ cmds' = Append(cmds, cmd)
                /\ UNCHANGED <<pc, err>>
           ELSE /\ transact' = EmptyTransact
                /\ cmds' = <<>>
                /\ pc' = "idle"
                /\ err' = w.err
  /\ UNCHANGED <<rsc_vars, qfam_props, ctxt, cmd_drain, tx, fence, lost, ncall, ntransact>>

create_transact_begin ==
  /\ pc = "idle"
  /\ ctxt.live
  /\ ~tx.valid
  /\ ntransact < MaxTransacts
  /\ ntransact' = ntransact + 1
  /\ pc' = "create_transact"
  /\ transact' = [EmptyTransact EXCEPT !.level = VK_COMMAND_BUFFER_LEVEL_SECONDARY]
  /\ cmds' = <<>>
  /\ err' = ""
  /\ UNCHANGED <<rsc_vars, qfam_props, ctxt, cmd_drain, tx, dev, queue, fence, lost, ncall>>

\* Outcomes of submit_details.back() on an empty vector followed by a driver
\* call on what it yields: the process dies, the driver call reports an
\* error, or the call goes through without effect.
BackOfEmpty == {"crash", "throw", "noop"}

create_transact_end ==
  /\ pc = "create_transact"
  /\ IF transact.submit_details = <<>>
     THEN \E o \in BackOfEmpty :
            /\ pc' = IF o = "crash" THEN "crashed" ELSE "idle"
            /\ err' = IF o = "throw" THEN "VkException" ELSE err
            /\ tx' = IF o = "noop"
                     THEN [valid |-> TRUE, submit_details |-> <<>>]
                     ELSE tx
            /\ UNCHANGED dev
     ELSE LET w == _end_cmdbuf(World(transact, dev, queue, ncall),
                               Last(transact.submit_details))
          IN /\ dev' = w.dev
             /\ tx' = [valid |-> TRUE, submit_details |-> w.submit_details]
             /\ pc' = "idle"
             /\ UNCHANGED err
  /\ transact' = EmptyTransact
  /\ cmds' = <<>>
  /\ UNCHANGED <<rsc_vars, qfam_props, ctxt, cmd_drain, queue, fence, lost, ncall, ntransact>>

submit_cmds_begin ==
  /\ pc = "idle"
  /\ ctxt.live
  /\ cmd_drain.fence # VK_NULL_HANDLE
  /\ ncall < MaxSubmits
  /\ pc' = "submit_cmds"
  /\ ncall' = ncall + 1
  /\ transact' = EmptyTransact
  /\ cmds' = <<>>
  /\ err' = ""
  /\ UNCHANGED <<rsc_vars, qfam_props, ctxt, cmd_drain, tx, dev, queue, fence, lost, ntransact>>

submit_cmds_end ==
  /\ pc = "submit_cmds"
  /\ IF cmds = <<>>
     THEN /\ pc' = "idle"
          /\ err' = "cannot submit empty command buffer"
          /\ UNCHANGED <<cmd_drain, dev, queue>>
     ELSE IF transact.submit_details = <<>>
     THEN \E o \in BackOfEmpty :
            /\ pc' = IF o = "crash" THEN "crashed" ELSE "idle"
            /\ err' = IF o = "throw" THEN "VkException" ELSE err
            /\ cmd_drain' = [cmd_drain EXCEPT !.submit_details = <<>>]
            /\ UNCHANGED <<dev, queue>>
     ELSE LET e == _end_cmdbuf(World(transact, dev, queue, ncall),
                               Last(transact.submit_details))
              w == _submit_transact_submit_detail(
                     e, Last(transact.submit_details), cmd_drain.fence)
          IN /\ dev' = w.dev
             /\ queue' = w.queue
             /\ cmd_drain' = [cmd_drain EXCEPT
                                !.submit_details = w.submit_details]
             /\ pc' = "idle"
             /\ UNCHANGED err
  /\ transact' = EmptyTransact
  /\ cmds' = <<>>
  /\ UNCHANGED <<rsc_vars, qfam_props, ctxt, tx, fence, lost, ncall, ntransact>>

(***************************************************************************)
(* Waiting for and tearing down the drain.                                 *)
(***************************************************************************)
\* vkDestroySemaphore(signal_sema) and vkDestroyCommandPool(cmd_pool) of one
\* submit detail; the device counts the destroy calls each object gets.
DestroyDetail(d, submit_detail) ==
  [d EXCEPT ![submit_detail.signal_sema].sema = IF @ < 2 THEN @ + 1 ELSE @,
            ![submit_detail.cmd_pool].pool = IF @ < 2 THEN @ + 1 ELSE @]

RECURSIVE DestroyDetails(_, _, _)
DestroyDetails(d, submit_details, i) ==
  IF i > Len(submit_details) THEN d
  ELSE DestroyDetails(DestroyDetail(d, submit_details[i]), submit_details, i + 1)

\* Returns the device objects and the submit_details vector after the call.
_clear_transact_submit_detail(d, submit_details) ==
  [dev |-> DestroyDetails(d, submit_details, 1), submit_details |-> <<>>]

\* A vkResetFences that leaves the fence as it is.
_reset_fence_kept(f) == f

\* vkResetFences
_reset_fence(f) == [f EXCEPT !.signaled = FALSE]

wait_cmd_drain_begin ==
  /\ pc = "idle"
  /\ cmd_drain.fence # VK_NULL_HANDLE
  /\ pc' = "wait_cmd_drain"
  /\ err' = ""
  /\ UNCHANGED <<rsc_vars, qfam_props, ctxt, transact, cmds, cmd_drain, tx, dev, queue, fence, lost,
                 ncall, ntransact>>

\* vkWaitForFences returned VK_TIMEOUT: the loop goes round.
wait_cmd_drain_timeout ==
  /\ pc = "wait_cmd_drain"
  /\ ~fence.signaled
  /\ ~lost
  /\ UNCHANGED vars

\* vkWaitForFences returned VK_SUCCESS: leave the loop, _reset_cmd_drain.
wait_cmd_drain_success ==
  /\ pc = "wait_cmd_drain"
  /\ fence.signaled
  /\ LET c == _clear_transact_submit_detail(dev, cmd_drain.submit_details)
     IN /\ dev' = c.dev
        /\ cmd_drain' = [cmd_drain EXCEPT !.submit_details = c.submit_details]
  /\ fence' = _reset_fence(fence)
  /\ pc' = "idle"
  /\ UNCHANGED <<rsc_vars, qfam_props, ctxt, transact, cmds, tx, queue, lost, err, ncall, ntransact>>

\* vkWaitForFences returned VK_ERROR_DEVICE_LOST: VK_ASSERT throws.
wait_cmd_drain_error ==
  /\ pc = "wait_cmd_drain"
  /\ lost
  /\ pc' = "idle"
  /\ err' = "VkException"
  /\ UNCHANGED <<rsc_vars, qfam_props, ctxt, transact, cmds, cmd_drain, tx, dev, queue, fence, lost,
                 ncall, ntransact>>

\* The device of the calls is read through the drain's context pointer: on
\* a destroyed context it is a null VkDevice, and the first call on it ends
\* the process.
destroy_cmd_drain ==
  /\ pc = "idle"
  /\ IF cmd_drain.fence = VK_NULL_HANDLE
     THEN UNCHANGED <<dev, fence, cmd_drain, pc>>
     ELSE IF ~ctxt.live
     THEN pc' = "crashed" /\ UNCHANGED <<dev, fence, cmd_drain>>
     ELSE LET c == _clear_transact_submit_detail(dev, cmd_drain.submit_details)
          IN /\ dev' = c.dev
             /\ fence' = [fence EXCEPT !.live = FALSE]
             /\ cmd_drain' = [submit_details |-> <<>>, fence |-> VK_NULL_HANDLE]
             /\ UNCHANGED pc
  /\ UNCHANGED <<rsc_vars, qfam_props, ctxt, transact, cmds, tx, queue, lost, err, ncall, ntransact>>

(***************************************************************************)
(* The device.  A batch starts once its wait semaphore (if any) is         *)
(* signalled, which unsignals it; when the batch finishes, its signal      *)
(* semaphore and its fence (if any) are signalled.  Batches of different   *)
(* queues are ordered by nothing else.                                     *)
(***************************************************************************)
DeviceStart(i) ==
  /\ ~lost
  /\ queue[i].st = "queued"
  /\ IF queue[i].wait_sema = VK_NULL_HANDLE THEN TRUE
     ELSE dev[queue[i].wait_sema].signaled
  /\ queue' = [queue EXCEPT ![i].st = "running"]
  /\ dev' = IF queue[i].wait_sema = VK_NULL_HANDLE THEN dev
            ELSE [dev EXCEPT ![queue[i].wait_sema].signaled = FALSE]
  /\ UNCHANGED <<rsc_vars, qfam_props, ctxt, pc, transact, cmds, cmd_drain, tx, fence, lost, err,
                 ncall, ntransact>>

DeviceFinish(i) ==
  /\ ~lost
  /\ queue[i].st = "running"
  /\ queue' = [queue EXCEPT ![i].st = "done"]
  /\ dev' = [dev EXCEPT ![queue[i].signal_sema].signaled = TRUE]
  /\ fence' = IF queue[i].fence # VK_NULL_HANDLE
              THEN [fence EXCEPT !.signaled = TRUE, !.by = queue[i].call]
              ELSE fence
  /\ UNCHANGED <<rsc_vars, qfam_props, ctxt, pc, transact, cmds, cmd_drain, tx, lost, err, ncall, ntransact>>

DeviceLose ==
  /\ ~lost
  /\ lost' = TRUE
  /\ UNCHANGED <<rsc_vars, qfam_props, ctxt, pc, transact, cmds, cmd_drain, tx, dev, queue, fence, err,
                 ncall, ntransact>>

DeviceStep == \E i \in 1..Len(queue) : DeviceStart(i) \/ DeviceFinish(i)

(***************************************************************************)
(* Translation alone: one create_transact and one submit_cmds, over every  *)
(* command.                                                                *)
(***************************************************************************)
Next ==
  \/ create_transact_begin
  \/ create_transact_end
  \/ submit_cmds_begin /\ ncall = 0
  \/ submit_cmds_end
  \/ \E cmd \in Commands : RecordCmd(cmd)

Spec == Init /\ [][Next]_vars

(***************************************************************************)
(* The drain beside the running device: submit_cmds, wait_cmd_drain and    *)
(* destroy_cmd_drain in any order, the device making progress in between.  *)
(***************************************************************************)
NextDev ==
  \/ submit_cmds_begin
  \/ submit_cmds_end
  \/ \E cmd \in DevCommands : RecordCmd(cmd)
  \/ wait_cmd_drain_begin
  \/ wait_cmd_drain_timeout
  \/ wait_cmd_drain_success
  \/ wait_cmd_drain_error
  \/ destroy_cmd_drain
  \/ \E i \in 1..Len(queue) : DeviceStart(i)
  \/ \E i \in 1..Len(queue) : DeviceFinish(i)
  \/ DeviceLose

SpecDev == Init /\ [][NextDev]_vars

(***************************************************************************)
(* Creating the context on any device, then one submit_cmds.               *)
(***************************************************************************)
\* Outcomes of vkGetDeviceQueue for the queue family index
\* VK_QUEUE_FAMILY_IGNORED, which names no queue of the device: the process
\* dies in the driver, or the call goes through and yields some handle.
GetDeviceQueueOfNoFamily == {"crash", "noop"}

\* create_ctxt on the physical device the configuration names (they all
\* have the queue families qfam_props and the memory types mem_prop).  The
\* module is initialized first if it has no instance; a physical device
\* whose handle the module never got is a null handle, and the first call
\* on it ends the process.
create_ctxt ==
  /\ pc = "idle"
  /\ ~ctxt.live
  /\ \E dev_idx \in 0..(MaxPhysDevs - 1), io \in InitializeOutcomes,
        validation \in BOOLEAN, nphysdev \in 0..MaxPhysDevs :
       LET i == IF vk.inst = VK_NULL_HANDLE
                THEN initialize_of(vk, io, validation, nphysdev)
                ELSE [ok |-> TRUE, vk |-> vk]
       IN /\ vk' = i.vk
          /\ IF ~i.ok
             THEN err' = "VkException" /\ UNCHANGED <<pc, ctxt>>
             ELSE IF ~(dev_idx < Len(i.vk.physdevs))
             THEN /\ err' = "wanted vulkan device does not exists"
                  /\ UNCHANGED <<pc, ctxt>>
             ELSE IF i.vk.physdevs[dev_idx + 1] = VK_NULL_HANDLE
             THEN pc' = "crashed" /\ UNCHANGED <<ctxt, err>>
             ELSE IF qfam_props = <<>>
             THEN /\ err' = "cannot find any queue family on device"
                  /\ UNCHANGED <<pc, ctxt>>
             ELSE LET allocs == queue_allocs(qfam_props)
                      created ==
                        /\ \E m \in mem_ty_idxs_by_host_access(mem_prop) :
                             ctxt' = [live |-> TRUE, queue_allocs |-> allocs,
                                      mem_ty_idxs_by_host_access |-> m]
                        /\ err' = ""
                        /\ UNCHANGED pc
                  IN IF \E submit_ty \in DOMAIN allocs :
                          allocs[submit_ty] = VK_QUEUE_FAMILY_IGNORED
                     THEN \E o \in GetDeviceQueueOfNoFamily :
                            IF o = "crash"
                            THEN pc' = "crashed" /\ UNCHANGED <<ctxt, err>>
                            ELSE created
                     ELSE created
  /\ UNCHANGED <<mem_prop, bufs, imgs, rsc_dev, task_vars, qfam_props,
                 transact, cmds, cmd_drain, tx, dev, queue, fence, lost,
                 ncall, ntransact>>

\* The commands recorded on such a context: those that need a class, and one
\* that takes the class of the current detail.
CtxtCommands ==
  {[ty |-> t] : t \in {"dispatch", "draw", "draw_indexed", "begin_pass",
                       "end_pass", "copy_buf2img"}}

InitCtxt ==
  /\ pc = "idle"
  /\ transact = EmptyTransact
  /\ cmds = <<>>
  /\ cmd_drain = [submit_details |-> <<>>, fence |-> FenceHandle]
  /\ tx = [valid |-> FALSE, submit_details |-> <<>>]
  /\ dev = <<>>
  /\ queue = <<>>
  /\ fence = [signaled |-> FALSE, live |-> TRUE, by |-> 0]
  /\ lost = FALSE
  /\ err = ""
  /\ ncall = 0
  /\ ntransact = 0
  /\ qfam_props \in QfamProps
  /\ vk = Initialized
  /\ mem_prop = <<{"DEVICE_LOCAL"}>>
  /\ ctxt = NoContext
  /\ NoResources

NextCtxt ==
  \/ create_ctxt
  \/ submit_cmds_begin /\ ncall = 0
  \/ submit_cmds_end
  \/ \E cmd \in CtxtCommands : RecordCmd(cmd)

SpecCtxt == InitCtxt /\ [][NextCtxt]_vars

\* Barriers of every (usage, dev-access) pair on both sides, on the context
\* of Init: one submit_cmds whose commands set the class and record a barrier.
BufBarrierCmds ==
  {BufBarrierCmd(su, sa, du, da) :
     su \in BufferUsages, sa \in MemoryAccesses,
     du \in BufferUsages, da \in MemoryAccesses}
ImgBarrierCmds ==
  {ImgBarrierCmd(su, sa, du, da) :
     su \in ImageUsages, sa \in MemoryAccesses,
     du \in ImageUsages, da \in MemoryAccesses}
BarrierCmds == BufBarrierCmds \cup ImgBarrierCmds

NoBarrierYet == \A i \in 1..Len(cmds) : cmds[i] \notin BarrierCmds

NextBarrier ==
  \/ submit_cmds_begin /\ ncall = 0
  \/ submit_cmds_end
  \/ \E cmd \in SetSubmitTypeCmds : RecordCmd(cmd)
  \/ \E cmd \in BarrierCmds : NoBarrierYet /\ RecordCmd(cmd)

SpecBarrier == Init /\ [][NextBarrier]_vars

(***************************************************************************)
(* Buffers and images.  A handle of rsc_dev is the index of the object; an *)
(* object records what it was created with and how many times it has been  *)
(* destroyed or freed.                                                     *)
(***************************************************************************)
\* The pick that takes the last index of the list whose bit is set.
memoryTypeIndex_last(mem_ty_idxs, memoryTypeBits) ==
  LET hit == {k \in 1..Len(mem_ty_idxs) : mem_ty_idxs[k] \in memoryTypeBits}
  IN IF hit = {} THEN 255
     ELSE mem_ty_idxs[CHOOSE k \in hit : \A l \in hit : l <= k]

\* mai.memoryTypeIndex after the loop over the Context's list for the host
\* access: the first index of the list whose bit is set in memoryTypeBits
\* (here the set of the indices whose bit is set), or 0xFF.
memoryTypeIndex(mem_ty_idxs, memoryTypeBits) ==
  LET hit == {k \in 1..Len(mem_ty_idxs) : mem_ty_idxs[k] \in memoryTypeBits}
  IN IF hit = {} THEN 255
     ELSE mem_ty_idxs[CHOOSE k \in hit : \A l \in hit : k <= l]

\* bci.usage of create_buf: the usage bits are gone through in this order,
\* the first two with |= and the last three with =.
bci_usage(usage) ==
  LET staging == IF "STAGING" \in usage
                 THEN {"TRANSFER_SRC", "TRANSFER_DST"} ELSE {}
      uniform == IF "UNIFORM" \in usage
                 THEN staging \cup {"UNIFORM_BUFFER", "TRANSFER_DST"}
                 ELSE staging
      storage == IF "STORAGE" \in usage
                 THEN {"STORAGE_BUFFER", "TRANSFER_SRC", "TRANSFER_DST"}
                 ELSE uniform
      vertex == IF "VERTEX" \in usage
                THEN {"VERTEX_BUFFER", "TRANSFER_DST"} ELSE storage
  IN IF "INDEX" \in usage
     THEN {"INDEX_BUFFER", "TRANSFER_DST"} ELSE vertex

NullBuffer ==
  [buf |-> VK_NULL_HANDLE, devmem |-> VK_NULL_HANDLE,
   buf_cfg |-> [host_access |-> {}, usage |-> {}, size |-> 0]]

\* create_buf on Context c with the device objects d; memoryTypeBits is what
\* vkGetBufferMemoryRequirements reports.  Returns the outcome, the device
\* objects after the call and the Buffer.
_create_buf(c, d, buf_cfg, memoryTypeBits) ==
  LET buf == Len(d) + 1
      d1 == Append(d, [ty |-> "buffer", usage |-> bci_usage(buf_cfg.usage),
                       size |-> buf_cfg.size, destroyed |-> 0])
      idx == memoryTypeIndex(c.mem_ty_idxs_by_host_access[buf_cfg.host_access],
                             memoryTypeBits)
  IN IF idx = 255
     THEN [ok |-> FALSE, err |-> "host access pattern cannot be satisfied",
           dev |-> d1, ret |-> NullBuffer]
     ELSE [ok |-> TRUE, err |-> "",
           dev |-> Append(d1, [ty |-> "memory", memoryTypeIndex |-> idx,
                               bound |-> buf, destroyed |-> 0]),
           ret |-> [buf |-> buf, devmem |-> buf + 1, buf_cfg |-> buf_cfg]]

\* The handles of the objects of a type that were ever created.
ObjectsOf(d, ty) == {h \in 1..Len(d) : d[h].ty = ty}

\* vkDestroy* and vkFree* on the object of handle h.
Release(d, h) == [d EXCEPT ![h].destroyed = @ + 1]

BufferUsageBits == {"STAGING", "UNIFORM", "STORAGE", "VERTEX", "INDEX"}

create_buf(buf_cfg) ==
  /\ pc = "idle"
  /\ ctxt.live
  /\ Cardinality(ObjectsOf(rsc_dev, "buffer")) < MaxBufs
  /\ \E memoryTypeBits \in SUBSET (0..(Len(mem_prop) - 1)) :
       LET r == _create_buf(ctxt, rsc_dev, buf_cfg, memoryTypeBits)
       IN /\ rsc_dev' = r.dev
          /\ err' = r.err
          /\ bufs' = IF r.ok THEN Append(bufs, r.ret) ELSE bufs
  /\ UNCHANGED <<vk, mem_prop, imgs, task_vars, qfam_props, ctxt, pc, transact, cmds,
                 cmd_drain, tx, dev, queue, fence, lost, ncall, ntransact>>

\* destroy_buf on the i-th Buffer the host holds.  The device of the calls
\* is read through the Buffer's context pointer: on a destroyed context it
\* is a null VkDevice, and the first call on it ends the process.
destroy_buf(i) ==
  /\ pc = "idle"
  /\ i \in 1..Len(bufs)
  /\ IF bufs[i].buf = VK_NULL_HANDLE
     THEN UNCHANGED <<rsc_dev, bufs, pc>>
     ELSE IF ~ctxt.live
     THEN pc' = "crashed" /\ UNCHANGED <<rsc_dev, bufs>>
     ELSE /\ rsc_dev' = Release(Release(rsc_dev, bufs[i].buf), bufs[i].devmem)
          /\ bufs' = [bufs EXCEPT ![i] = NullBuffer]
          /\ UNCHANGED pc
  /\ UNCHANGED <<vk, mem_prop, imgs, task_vars, qfam_props, ctxt, transact, cmds,
                 cmd_drain, tx, dev, queue, fence, lost, err, ncall,
                 ntransact>>

\* A VkFormat is its component count, the bits of a component and its
\* numeric type.
VkFormat(ncomp, bits, ty) == [ncomp |-> ncomp, bits |-> bits, ty |-> ty]
VK_FORMAT_UNDEFINED == VkFormat(0, 0, "UNDEFINED")

\* The pixel formats a configuration may name; get_ncomp() is ncomp.
PixelFormats ==
  [ncomp : 1..4, int_exp2 : 0..3, is_signed : BOOLEAN, is_single : BOOLEAN,
   is_half : BOOLEAN]

\* The integer formats of _make_img_fmt.  The outer switch is on int_exp2;
\* the inner switch of case 1 is on get_ncomp(), the inner switches of
\* cases 2 and 3 are on int_exp2 again.  No case ends in a break, but with
\* get_ncomp() in 1..4 every inner switch that is entered returns.
IntFormat(fmt, norm, int) ==
  IF fmt.int_exp2 = 1 THEN [ok |-> TRUE, ret |-> VkFormat(fmt.ncomp, 8, norm)]
  ELSE IF fmt.int_exp2 = 2
  THEN [ok |-> TRUE, ret |-> VkFormat(fmt.int_exp2, 16, int)]
  ELSE IF fmt.int_exp2 = 3
  THEN [ok |-> TRUE, ret |-> VkFormat(fmt.int_exp2, 32, int)]
  ELSE [ok |-> FALSE, ret |-> VK_FORMAT_UNDEFINED]

_make_img_fmt(fmt) ==
  IF fmt.is_half
  THEN [ok |-> FALSE, err |-> "half-precision texture not supported",
        ret |-> VK_FORMAT_UNDEFINED]
  ELSE IF fmt.is_single
  THEN [ok |-> TRUE, err |-> "", ret |-> VkFormat(fmt.ncomp, 32, "SFLOAT")]
  ELSE LET f == IF fmt.is_signed THEN IntFormat(fmt, "SNORM", "SINT")
                ELSE IntFormat(fmt, "UNORM", "UINT")
       IN IF f.ok THEN [ok |-> TRUE, err |-> "", ret |-> f.ret]
          ELSE [ok |-> FALSE, err |-> "unrecognized pixel format",
                ret |-> VK_FORMAT_UNDEFINED]

ImageUsageBits == {"SAMPLED", "STORAGE", "ATTACHMENT", "STAGING"}

\* ici.usage of create_img.
ici_usage(usage) ==
  (IF "SAMPLED" \in usage THEN {"SAMPLED", "TRANSFER_DST"} ELSE {})
    \cup (IF "STORAGE" \in usage
          THEN {"STORAGE", "TRANSFER_SRC", "TRANSFER_DST"} ELSE {})
    \cup (IF "ATTACHMENT" \in usage
          THEN {"TRANSFER_SRC", "TRANSFER_DST", "SAMPLED", "COLOR_ATTACHMENT",
                "INPUT_ATTACHMENT"}
          ELSE {})
    \cup (IF "STAGING" \in usage THEN {"TRANSFER_SRC", "TRANSFER_DST"} ELSE {})

NullImage ==
  [img |-> VK_NULL_HANDLE, img_view |-> VK_NULL_HANDLE,
   devmem |-> VK_NULL_HANDLE, is_staging_img |-> FALSE,
   img_cfg |-> [host_access |-> {}, usage |-> {},
                fmt |-> [ncomp |-> 1, int_exp2 |-> 0, is_signed |-> FALSE,
                         is_single |-> FALSE, is_half |-> FALSE]]]

\* create_img on Context c with the device objects d; memoryTypeBits is what
\* vkGetImageMemoryRequirements reports.
_create_img(c, d, img_cfg, memoryTypeBits) ==
  LET fmt == _make_img_fmt(img_cfg.fmt)
      is_staging_img == "STAGING" \in img_cfg.usage
      img == Len(d) + 1
      d1 == Append(d, [ty |-> "image", usage |-> ici_usage(img_cfg.usage),
                       format |-> fmt.ret, destroyed |-> 0])
      idx == memoryTypeIndex(c.mem_ty_idxs_by_host_access[img_cfg.host_access],
                             memoryTypeBits)
      d2 == Append(d1, [ty |-> "memory", memoryTypeIndex |-> idx,
                        bound |-> img, destroyed |-> 0])
      fail(msg, dd) == [ok |-> FALSE, err |-> msg, dev |-> dd, ret |-> NullImage]
  IN IF ~fmt.ok THEN fail(fmt.err, d)
     ELSE IF is_staging_img /\ img_cfg.usage # {"STAGING"}
     THEN fail("staging image can only be used for transfer", d)
     ELSE IF idx = 255
     THEN fail("host access pattern cannot be satisfied", d1)
     ELSE IF is_staging_img
     THEN [ok |-> TRUE, err |-> "", dev |-> d2,
           ret |-> [img |-> img, img_view |-> VK_NULL_HANDLE,
                    devmem |-> img + 1, is_staging_img |-> TRUE,
                    img_cfg |-> img_cfg]]
     ELSE [ok |-> TRUE, err |-> "",
           dev |-> Append(d2, [ty |-> "image_view", image |-> img,
                               format |-> fmt.ret, destroyed |-> 0]),
           ret |-> [img |-> img, img_view |-> img + 2, devmem |-> img + 1,
                    is_staging_img |-> FALSE, img_cfg |-> img_cfg]]

create_img(img_cfg) ==
  /\ pc = "idle"
  /\ ctxt.live
  /\ Cardinality(ObjectsOf(rsc_dev, "image")) < MaxImgs
  /\ \E memoryTypeBits \in SUBSET (0..(Len(mem_prop) - 1)) :
       LET r == _create_img(ctxt, rsc_dev, img_cfg, memoryTypeBits)
       IN /\ rsc_dev' = r.dev
          /\ err' = r.err
          /\ imgs' = IF r.ok THEN Append(imgs, r.ret) ELSE imgs
  /\ UNCHANGED <<vk, mem_prop, bufs, task_vars, qfam_props, ctxt, pc, transact, cmds,
                 cmd_drain, tx, dev, queue, fence, lost, ncall, ntransact>>

\* destroy_img on the i-th Image the host holds.  vkDestroyImageView of a
\* null handle does nothing.
destroy_img(i) ==
  /\ pc = "idle"
  /\ i \in 1..Len(imgs)
  /\ IF imgs[i].img = VK_NULL_HANDLE
     THEN UNCHANGED <<rsc_dev, imgs, pc>>
     ELSE IF ~ctxt.live
     THEN pc' = "crashed" /\ UNCHANGED <<rsc_dev, imgs>>
     ELSE /\ rsc_dev' =
               LET d == Release(Release(rsc_dev, imgs[i].img), imgs[i].devmem)
               IN IF imgs[i].img_view # VK_NULL_HANDLE
                  THEN Release(d, imgs[i].img_view) ELSE d
          /\ imgs' = [imgs EXCEPT ![i] = NullImage]
          /\ UNCHANGED pc
  /\ UNCHANGED <<vk, mem_prop, bufs, task_vars, qfam_props, ctxt, transact, cmds,
                 cmd_drain, tx, dev, queue, fence, lost, err, ncall,
                 ntransact>>

\* Buffers and images of every host access pattern, on a device with any
\* memory types, whatever the memory requirements of each.
MemBufCfgs ==
  {[host_access |-> a, usage |-> {"STORAGE"}, size |-> 1] :
     a \in MemoryAccesses}
MemImgCfgs ==
  {[host_access |-> a, usage |-> {"SAMPLED"},
    fmt |-> [ncomp |-> 4, int_exp2 |-> 1, is_signed |-> FALSE,
             is_single |-> FALSE, is_half |-> FALSE]] :
     a \in MemoryAccesses}

InitMem ==
  /\ pc = "idle"
  /\ transact = EmptyTransact
  /\ cmds = <<>>
  /\ cmd_drain = [submit_details |-> <<>>, fence |-> FenceHandle]
  /\ tx = [valid |-> FALSE, submit_details |-> <<>>]
  /\ dev = <<>>
  /\ queue = <<>>
  /\ fence = [signaled |-> FALSE, live |-> TRUE, by |-> 0]
  /\ lost = FALSE
  /\ err = ""
  /\ ncall = 0
  /\ ntransact = 0
  /\ qfam_props = <<{VK_QUEUE_GRAPHICS_BIT, VK_QUEUE_COMPUTE_BIT}>>
  /\ vk = Initialized
  /\ mem_prop \in MemProps
  /\ ctxt = NoContext
  /\ NoResources

NextMem ==
  \/ create_ctxt
  \/ \E buf_cfg \in MemBufCfgs : create_buf(buf_cfg)
  \/ \E img_cfg \in MemImgCfgs : create_img(img_cfg)
  \/ \E i \in 1..MaxBufs : destroy_buf(i)
  \/ \E i \in 1..MaxImgs : destroy_img(i)

SpecMem == InitMem /\ [][NextMem]_vars

\* Buffers of every set of usages, on the context of Init.
BufCfgs ==
  {[host_access |-> a, usage |-> u, size |-> 1] :
     a \in MemoryAccesses, u \in SUBSET BufferUsageBits}

NextBuf ==
  \/ \E buf_cfg \in BufCfgs : create_buf(buf_cfg)
  \/ \E i \in 1..MaxBufs : destroy_buf(i)

SpecBuf == Init /\ [][NextBuf]_vars

\* Sampled images and staging images of every pixel format, on the context
\* of Init.
ImgCfgs ==
  {[host_access |-> L_MEMORY_ACCESS_NONE, usage |-> u, fmt |-> f] :
     u \in {{"SAMPLED"}, {"STAGING"}}, f \in PixelFormats}

NextImg ==
  \/ \E img_cfg \in ImgCfgs : create_img(img_cfg)
  \/ \E i \in 1..MaxImgs : destroy_img(i)

SpecImg == Init /\ [][NextImg]_vars

(***************************************************************************)
(* Tasks and resource pools.  A Task keeps the resource types of its       *)
(* bindings and the sizes a descriptor pool for them needs; a ResourcePool *)
(* is one descriptor set of the Task's layout, which bind_pool_rsc fills.  *)
(***************************************************************************)
ResourceTypes ==
  {"UNIFORM_BUFFER", "STORAGE_BUFFER", "SAMPLED_IMAGE", "STORAGE_IMAGE"}

\* The descriptor types, in the order of their VkDescriptorType values (the
\* order in which a std::map keyed by them is walked).
VkDescriptorTypes ==
  <<"COMBINED_IMAGE_SAMPLER", "STORAGE_IMAGE", "UNIFORM_BUFFER",
    "STORAGE_BUFFER">>

\* The switch of _create_desc_set_layout; "" where it panics.
DescriptorTypeOf(rsc_ty) ==
  CASE rsc_ty = "UNIFORM_BUFFER" -> "UNIFORM_BUFFER"
    [] rsc_ty = "STORAGE_BUFFER" -> "STORAGE_BUFFER"
    [] rsc_ty = "SAMPLED_IMAGE" -> "COMBINED_IMAGE_SAMPLER"
    [] rsc_ty = "STORAGE_IMAGE" -> "STORAGE_IMAGE"
    [] OTHER -> ""

\* desc_counter after the first n resources.
desc_counter(rsc_tys, n) ==
  [t \in {DescriptorTypeOf(rsc_tys[i]) : i \in 1..n} |->
     Cardinality({i \in 1..n : DescriptorTypeOf(rsc_tys[i]) = t})]

\* One VkDescriptorPoolSize for each pair of the map, in key order.
PoolSizesOf(counter) ==
  LET keys == SelectSeq(VkDescriptorTypes, LAMBDA t : t \in DOMAIN counter)
  IN [k \in 1..Len(keys) |->
        [type |-> keys[k], descriptorCount |-> counter[keys[k]]]]

\* desc_pool_sizes after the first n rounds of the loop over the resources:
\* each round appends every pair the map holds at that point.
RECURSIVE desc_pool_sizes_after(_, _)
desc_pool_sizes_after(rsc_tys, n) ==
  IF n = 0 THEN <<>>
  ELSE desc_pool_sizes_after(rsc_tys, n - 1)
         \o PoolSizesOf(desc_counter(rsc_tys, n))

\* _create_desc_set_layout on the device objects d: the outcome, the device
\* objects after the call, the layout and the desc_pool_sizes it filled.
_create_desc_set_layout(d, rsc_tys) ==
  IF \E i \in 1..Len(rsc_tys) : DescriptorTypeOf(rsc_tys[i]) = ""
  THEN [ok |-> FALSE, err |-> "unexpected resource type", dev |-> d,
        ret |-> VK_NULL_HANDLE, desc_pool_sizes |-> <<>>]
  ELSE [ok |-> TRUE, err |-> "",
        dev |-> Append(d, [ty |-> "desc_set_layout",
                           dslbs |-> [i \in 1..Len(rsc_tys) |->
                                        DescriptorTypeOf(rsc_tys[i])],
                           destroyed |-> 0]),
        ret |-> Len(d) + 1,
        desc_pool_sizes |-> desc_pool_sizes_after(rsc_tys, Len(rsc_tys))]

NullTask ==
  [desc_set_layout |-> VK_NULL_HANDLE, pipe_layout |-> VK_NULL_HANDLE,
   pipe |-> VK_NULL_HANDLE, rsc_tys |-> <<>>, shader_mods |-> <<>>,
   desc_pool_sizes |-> <<>>]

\* create_comp_task on the device objects d.
_create_comp_task(d, rsc_tys) ==
  LET l == _create_desc_set_layout(d, rsc_tys)
      pipe_layout == Len(l.dev) + 1
      d1 == Append(l.dev, [ty |-> "pipe_layout", layout |-> l.ret,
                           destroyed |-> 0])
      d2 == Append(d1, [ty |-> "shader_mod", destroyed |-> 0])
      d3 == Append(d2, [ty |-> "pipeline", layout |-> pipe_layout,
                        destroyed |-> 0])
  IN IF ~l.ok THEN [ok |-> FALSE, err |-> l.err, dev |-> l.dev,
                    ret |-> NullTask]
     ELSE [ok |-> TRUE, err |-> "", dev |-> d3,
           ret |-> [desc_set_layout |-> l.ret, pipe_layout |-> pipe_layout,
                    pipe |-> pipe_layout + 2, rsc_tys |-> rsc_tys,
                    shader_mods |-> <<pipe_layout + 1>>,
                    desc_pool_sizes |-> l.desc_pool_sizes]]

create_comp_task(rsc_tys) ==
  /\ pc = "idle"
  /\ ctxt.live
  /\ Len(tasks) < MaxTasks
  /\ LET r == _create_comp_task(rsc_dev, rsc_tys)
     IN /\ rsc_dev' = r.dev
        /\ err' = r.err
        /\ tasks' = IF r.ok THEN Append(tasks, r.ret) ELSE tasks
  /\ UNCHANGED <<vk, mem_prop, bufs, imgs, rsc_pools, passes, timestamps,
                 qfam_props, ctxt, pc, transact, cmds, cmd_drain, tx, dev,
                 queue, fence, lost, ncall, ntransact>>

RECURSIVE ReleaseAll(_, _)
ReleaseAll(d, hs) ==
  IF hs = <<>> THEN d ELSE ReleaseAll(Release(d, Head(hs)), Tail(hs))

\* destroy_task on the i-th Task the host holds.  The device of the calls
\* is read through the Task's context pointer: on a destroyed context it is
\* a null VkDevice, and the first call on it ends the process.
destroy_task(i) ==
  /\ pc = "idle"
  /\ i \in 1..Len(tasks)
  /\ IF tasks[i].pipe = VK_NULL_HANDLE
     THEN UNCHANGED <<rsc_dev, tasks, pc>>
     ELSE IF ~ctxt.live
     THEN pc' = "crashed" /\ UNCHANGED <<rsc_dev, tasks>>
     ELSE /\ rsc_dev' =
               ReleaseAll(rsc_dev,
                          <<tasks[i].pipe>> \o tasks[i].shader_mods
                            \o <<tasks[i].pipe_layout,
                                 tasks[i].desc_set_layout>>)
          /\ tasks' = [tasks EXCEPT ![i] = NullTask]
          /\ UNCHANGED pc
  /\ UNCHANGED <<vk, mem_prop, bufs, imgs, rsc_pools, passes, timestamps,
                 qfam_props, ctxt, transact, cmds, cmd_drain, tx, dev,
                 queue, fence, lost, err, ncall, ntransact>>

\* A ResourcePool points at its Task: task is the position of the Task among
\* the Tasks the host holds, 0 for no Task.
NullResourcePool ==
  [task |-> 0, desc_pool |-> VK_NULL_HANDLE, desc_set |-> VK_NULL_HANDLE]

\* A binding of a descriptor set nothing was written to.
NoDescriptor == [descriptorType |-> "", view |-> VK_NULL_HANDLE, layout |-> ""]

\* create_rsc_pool for the Task at position t, on the device objects d.
_create_rsc_pool(d, t, task) ==
  IF Len(task.desc_pool_sizes) = 0
  THEN [dev |-> d,
        ret |-> [task |-> t, desc_pool |-> VK_NULL_HANDLE,
                 desc_set |-> VK_NULL_HANDLE]]
  ELSE LET desc_pool == Len(d) + 1
           d1 == Append(d, [ty |-> "desc_pool",
                            pPoolSizes |-> task.desc_pool_sizes,
                            destroyed |-> 0])
           d2 == Append(d1, [ty |-> "desc_set", pool |-> desc_pool,
                             layout |-> task.desc_set_layout,
                             writes |-> [b \in 0..MaxRscTys |-> NoDescriptor],
                             destroyed |-> 0])
       IN [dev |-> d2,
           ret |-> [task |-> t, desc_pool |-> desc_pool,
                    desc_set |-> desc_pool + 1]]

\* create_rsc_pool for a Task that was not destroyed.
create_rsc_pool(t) ==
  /\ pc = "idle"
  /\ ctxt.live
  /\ t \in 1..Len(tasks)
  /\ tasks[t].pipe # VK_NULL_HANDLE
  /\ Len(rsc_pools) < MaxRscPools
  /\ LET r == _create_rsc_pool(rsc_dev, t, tasks[t])
     IN /\ rsc_dev' = r.dev
        /\ rsc_pools' = Append(rsc_pools, r.ret)
  /\ UNCHANGED <<vk, mem_prop, bufs, imgs, tasks, passes, timestamps, hal_vars>>

\* destroy_rsc_pool on the p-th ResourcePool the host holds.  The device of
\* the call is read through the pool's Task pointer and the Task's context
\* pointer; a destroyed Task has a null context pointer, and reading the
\* device through it ends the process, as does the call on the null device
\* of a destroyed context.
destroy_rsc_pool(p) ==
  /\ pc = "idle"
  /\ p \in 1..Len(rsc_pools)
  /\ IF rsc_pools[p].desc_pool = VK_NULL_HANDLE
     THEN UNCHANGED <<rsc_dev, rsc_pools, pc>>
     ELSE IF tasks[rsc_pools[p].task].pipe = VK_NULL_HANDLE \/ ~ctxt.live
     THEN pc' = "crashed" /\ UNCHANGED <<rsc_dev, rsc_pools>>
     ELSE /\ rsc_dev' = Release(rsc_dev, rsc_pools[p].desc_pool)
          /\ rsc_pools' = [rsc_pools EXCEPT ![p] = NullResourcePool]
          /\ UNCHANGED pc
  /\ UNCHANGED <<vk, mem_prop, bufs, imgs, tasks, passes, timestamps,
                 qfam_props, ctxt, transact, cmds, cmd_drain, tx, dev,
                 queue, fence, lost, err, ncall, ntransact>>

\* What reading rsc_tys[idx] past the end of the vector can give: any
\* resource type, a value that is none of them, or the end of the process.
PastTheEnd == ResourceTypes \cup {"OTHER", "crash"}

\* vkUpdateDescriptorSets of one descriptor.
UpdateDescriptorSet(d, desc_set, idx, descriptor) ==
  [d EXCEPT ![desc_set].writes[idx] = descriptor]

\* bind_pool_rsc for a buffer view that rejects no resource type.
bind_pool_rsc_BufferView_unchecked(d, rsc_pool, rsc_ty, idx, buf_view) ==
  IF rsc_pool.desc_pool = VK_NULL_HANDLE
  THEN [ok |-> FALSE, err |-> "cannot bind to empty resource pool", dev |-> d]
  ELSE [ok |-> TRUE, err |-> "",
        dev |-> UpdateDescriptorSet(d, rsc_pool.desc_set, idx,
                  [descriptorType |-> DescriptorTypeOf(rsc_ty),
                   view |-> buf_view.buf, layout |-> ""])]

\* bind_pool_rsc for a buffer view; rsc_ty is what rsc_pool.task->rsc_tys[idx]
\* reads.
bind_pool_rsc_BufferView(d, rsc_pool, rsc_ty, idx, buf_view) ==
  IF rsc_pool.desc_pool = VK_NULL_HANDLE
  THEN [ok |-> FALSE, err |-> "cannot bind to empty resource pool", dev |-> d]
  ELSE IF rsc_ty \notin {"UNIFORM_BUFFER", "STORAGE_BUFFER"}
  THEN [ok |-> FALSE, err |-> "unexpected buffer resource type", dev |-> d]
  ELSE [ok |-> TRUE, err |-> "",
        dev |-> UpdateDescriptorSet(d, rsc_pool.desc_set, idx,
                  [descriptorType |-> rsc_ty, view |-> buf_view.buf,
                   layout |-> ""])]

\* bind_pool_rsc for an image view.
bind_pool_rsc_ImageView(d, rsc_pool, rsc_ty, idx, img_view) ==
  IF rsc_pool.desc_pool = VK_NULL_HANDLE
  THEN [ok |-> FALSE, err |-> "cannot bind to empty resource pool", dev |-> d]
  ELSE IF rsc_ty = "SAMPLED_IMAGE"
  THEN [ok |-> TRUE, err |-> "",
        dev |-> UpdateDescriptorSet(d, rsc_pool.desc_set, idx,
                  [descriptorType |-> "COMBINED_IMAGE_SAMPLER",
                   view |-> img_view.img_view,
                   layout |-> "SHADER_READ_ONLY_OPTIMAL"])]
  ELSE IF rsc_ty = "STORAGE_IMAGE"
  THEN [ok |-> TRUE, err |-> "",
        dev |-> UpdateDescriptorSet(d, rsc_pool.desc_set, idx,
                  [descriptorType |-> "STORAGE_IMAGE",
                   view |-> img_view.img_view, layout |-> "GENERAL"])]
  ELSE [ok |-> FALSE, err |-> "unexpected image resource type", dev |-> d]

\* What rsc_pool.task->rsc_tys[idx] can read.
ReadRscTy(rsc_pool, idx) ==
  IF rsc_pool.task = 0 THEN {"crash"}
  ELSE IF idx < Len(tasks[rsc_pool.task].rsc_tys)
  THEN {tasks[rsc_pool.task].rsc_tys[idx + 1]}
  ELSE IF tasks[rsc_pool.task].rsc_tys = <<>> THEN {"crash"}
  ELSE PastTheEnd

\* The two overloads of bind_pool_rsc share their frame: the assertion on
\* the pool, the read of the resource type, the switch and the write.
\* bound[rsc_ty] is what the overload does when the read gives rsc_ty.
BindPoolRsc(p, idx, bound) ==
  /\ pc = "idle"
  /\ p \in 1..Len(rsc_pools)
  /\ IF rsc_pools[p].desc_pool = VK_NULL_HANDLE
     THEN err' = bound[""].err /\ UNCHANGED <<rsc_dev, pc>>
     ELSE \E rsc_ty \in ReadRscTy(rsc_pools[p], idx) :
            IF rsc_ty = "crash" \/ ~ctxt.live
            THEN pc' = "crashed" /\ UNCHANGED <<rsc_dev, err>>
            ELSE /\ rsc_dev' = bound[rsc_ty].dev
                 /\ err' = bound[rsc_ty].err
                 /\ UNCHANGED pc
  /\ UNCHANGED <<vk, mem_prop, bufs, imgs, task_vars, qfam_props, ctxt, transact,
                 cmds, cmd_drain, tx, dev, queue, fence, lost, ncall,
                 ntransact>>

\* bind_pool_rsc(rsc_pool, idx, buf_view) with a view of the b-th Buffer.
bind_pool_rsc_buf(p, idx, b) ==
  /\ b \in 1..Len(bufs)
  /\ BindPoolRsc(p, idx,
                 [rsc_ty \in ResourceTypes \cup {"OTHER", ""} |->
                    bind_pool_rsc_BufferView(rsc_dev, rsc_pools[p], rsc_ty,
                                             idx, [buf |-> bufs[b].buf])])

\* bind_pool_rsc(rsc_pool, idx, img_view) with a view of the i-th Image.
bind_pool_rsc_img(p, idx, i) ==
  /\ i \in 1..Len(imgs)
  /\ BindPoolRsc(p, idx,
                 [rsc_ty \in ResourceTypes \cup {"OTHER", ""} |->
                    bind_pool_rsc_ImageView(rsc_dev, rsc_pools[p], rsc_ty,
                                            idx,
                                            [img_view |-> imgs[i].img_view])])

\* Every list of at most MaxRscTys resource types.
RscTyLists == UNION {[1..n -> ResourceTypes] : n \in 0..MaxRscTys}

\* One buffer and one image on the context of Init, then tasks, pools and
\* bindings in any order.
InitTask ==
  /\ pc = "idle"
  /\ transact = EmptyTransact
  /\ cmds = <<>>
  /\ cmd_drain = [submit_details |-> <<>>, fence |-> FenceHandle]
  /\ tx = [valid |-> FALSE, submit_details |-> <<>>]
  /\ dev = <<>>
  /\ queue = <<>>
  /\ fence = [signaled |-> FALSE, live |-> TRUE, by |-> 0]
  /\ lost = FALSE
  /\ err = ""
  /\ ncall = 0
  /\ ntransact = 0
  /\ qfam_props = <<{VK_QUEUE_GRAPHICS_BIT, VK_QUEUE_COMPUTE_BIT}>>
  /\ vk = Initialized
  /\ mem_prop = <<{"DEVICE_LOCAL"}>>
  /\ ctxt = [live |-> TRUE,
             queue_allocs |-> queue_allocs(qfam_props),
             mem_ty_idxs_by_host_access |->
               [host_access \in MemoryAccesses |-> <<0>>]]
  /\ LET b == _create_buf(ctxt, <<>>,
                          [host_access |-> L_MEMORY_ACCESS_NONE,
                           usage |-> {"STORAGE"}, size |-> 1], {0})
         i == _create_img(ctxt, b.dev,
                          [host_access |-> L_MEMORY_ACCESS_NONE,
                           usage |-> {"SAMPLED"},
                           fmt |-> [ncomp |-> 4, int_exp2 |-> 1,
                                    is_signed |-> FALSE, is_single |-> FALSE,
                                    is_half |-> FALSE]], {0})
     IN /\ bufs = <<b.ret>>
        /\ imgs = <<i.ret>>
        /\ rsc_dev = i.dev
  /\ tasks = <<>>
  /\ rsc_pools = <<>>
  /\ passes = <<>>
  /\ timestamps = <<>>

NextTask ==
  \/ \E rsc_tys \in RscTyLists : create_comp_task(rsc_tys)
  \/ \E t \in 1..MaxTasks : create_rsc_pool(t)
  \/ \E p \in 1..MaxRscPools, idx \in 0..MaxRscTys, b \in 1..MaxBufs :
       bind_pool_rsc_buf(p, idx, b)
  \/ \E p \in 1..MaxRscPools, idx \in 0..MaxRscTys, i \in 1..MaxImgs :
       bind_pool_rsc_img(p, idx, i)
  \/ \E p \in 1..MaxRscPools : destroy_rsc_pool(p)
  \/ \E t \in 1..MaxTasks : destroy_task(t)

SpecTask == InitTask /\ [][NextTask]_vars

(***************************************************************************)
(* Render passes, timestamps, and the end of transactions and contexts.    *)
(***************************************************************************)
NullRenderPass ==
  [attm |-> 0, pass |-> VK_NULL_HANDLE, framebuf |-> VK_NULL_HANDLE]

\* create_pass on the a-th Image the host holds, which has an image view.
create_pass(a) ==
  /\ pc = "idle"
  /\ ctxt.live
  /\ a \in 1..Len(imgs)
  /\ imgs[a].img_view # VK_NULL_HANDLE
  /\ Len(passes) < MaxPasses
  /\ LET pass == Len(rsc_dev) + 1
     IN /\ rsc_dev' = rsc_dev
                        \o <<[ty |-> "render_pass", destroyed |-> 0],
                             [ty |-> "framebuffer", renderPass |-> pass,
                              pAttachments |-> imgs[a].img_view,
                              destroyed |-> 0]>>
        /\ passes' = Append(passes, [attm |-> a, pass |-> pass,
                                     framebuf |-> pass + 1])
  /\ UNCHANGED <<vk, mem_prop, bufs, imgs, tasks, rsc_pools, timestamps,
                 hal_vars>>

\* destroy_pass on the i-th RenderPass the host holds.
destroy_pass(i) ==
  /\ pc = "idle"
  /\ i \in 1..Len(passes)
  /\ IF passes[i].pass = VK_NULL_HANDLE
     THEN UNCHANGED <<rsc_dev, passes, pc>>
     ELSE IF ~ctxt.live
     THEN pc' = "crashed" /\ UNCHANGED <<rsc_dev, passes>>
     ELSE /\ rsc_dev' = Release(Release(rsc_dev, passes[i].framebuf),
                                passes[i].pass)
          /\ passes' = [passes EXCEPT ![i] = NullRenderPass]
          /\ UNCHANGED pc
  /\ UNCHANGED <<vk, mem_prop, bufs, imgs, tasks, rsc_pools, timestamps,
                 qfam_props, ctxt, transact, cmds, cmd_drain, tx, dev,
                 queue, fence, lost, err, ncall, ntransact>>

NullTimestamp == [query_pool |-> VK_NULL_HANDLE]

create_timestamp ==
  /\ pc = "idle"
  /\ ctxt.live
  /\ Len(timestamps) < MaxTimestamps
  /\ rsc_dev' = Append(rsc_dev, [ty |-> "query_pool", destroyed |-> 0])
  /\ timestamps' = Append(timestamps, [query_pool |-> Len(rsc_dev) + 1])
  /\ UNCHANGED <<vk, mem_prop, bufs, imgs, tasks, rsc_pools, passes, hal_vars>>

\* destroy_timestamp on the i-th Timestamp the host holds.
destroy_timestamp(i) ==
  /\ pc = "idle"
  /\ i \in 1..Len(timestamps)
  /\ IF timestamps[i].query_pool = VK_NULL_HANDLE
     THEN UNCHANGED <<rsc_dev, timestamps, pc>>
     ELSE IF ~ctxt.live
     THEN pc' = "crashed" /\ UNCHANGED <<rsc_dev, timestamps>>
     ELSE /\ rsc_dev' = Release(rsc_dev, timestamps[i].query_pool)
          /\ timestamps' = [timestamps EXCEPT ![i] = NullTimestamp]
          /\ UNCHANGED pc
  /\ UNCHANGED <<vk, mem_prop, bufs, imgs, tasks, rsc_pools, passes,
                 qfam_props, ctxt, transact, cmds, cmd_drain, tx, dev,
                 queue, fence, lost, err, ncall, ntransact>>

\* A destroy_transact that keeps what the Transaction held.
destroy_transact_kept(d, t) ==
  [dev |-> _clear_transact_submit_detail(d, t.submit_details).dev, ret |-> t]

\* destroy_transact on the device objects d: _clear_transact_submit_detail
\* on the submit details, then transact = {}.
destroy_transact_of(d, t) ==
  [dev |-> _clear_transact_submit_detail(d, t.submit_details).dev,
   ret |-> [valid |-> FALSE, submit_details |-> <<>>]]

\* destroy_transact has no test of the Transaction.  With submit details to
\* clear, the device of the calls is read through the context pointer, and
\* the null VkDevice of a destroyed context ends the process at the first
\* call; with none (a Transaction that was destroyed, or never made) the
\* loop has nothing to walk and the context is not read.
destroy_transact ==
  /\ pc = "idle"
  /\ IF tx.submit_details # <<>> /\ ~ctxt.live
     THEN pc' = "crashed" /\ UNCHANGED <<dev, tx>>
     ELSE LET r == destroy_transact_of(dev, tx)
          IN dev' = r.dev /\ tx' = r.ret /\ UNCHANGED pc
  /\ UNCHANGED <<rsc_vars, qfam_props, ctxt, transact, cmds, cmd_drain, queue,
                 fence, lost, err, ncall, ntransact>>

\* The VkDevice of the Context and the sampler made with it, as the device
\* objects of a run that follows them to their end.
ContextObjects ==
  <<[ty |-> "device", destroyed |-> 0], [ty |-> "sampler", destroyed |-> 0]>>

\* A destroy_ctxt that does not look at the Context.
DestroyCtxtObjects_always(c, d) ==
  ReleaseAll(d, SelectSeq([h \in 1..Len(d) |-> h],
                          LAMBDA h : d[h].ty \in {"sampler", "device"}))

\* vkDestroySampler and vkDestroyDevice of destroy_ctxt, if ctxt.dev is not
\* null.
DestroyCtxtObjects(c, d) ==
  IF c.live
  THEN ReleaseAll(d, SelectSeq([h \in 1..Len(d) |-> h],
                               LAMBDA h : d[h].ty \in {"sampler", "device"}))
  ELSE d

destroy_ctxt ==
  /\ pc = "idle"
  /\ rsc_dev' = DestroyCtxtObjects(ctxt, rsc_dev)
  /\ ctxt' = NoContext
  /\ UNCHANGED <<vk, mem_prop, bufs, imgs, task_vars, qfam_props, pc, transact,
                 cmds, cmd_drain, tx, dev, queue, fence, lost, err, ncall,
                 ntransact>>

(***************************************************************************)
(* The module from its start: initialize, create_ctxt and destroy_ctxt in  *)
(* any order, the driver letting each initialization get as far as it      *)
(* likes.                                                                  *)
(***************************************************************************)
InitInst ==
  /\ pc = "idle"
  /\ transact = EmptyTransact
  /\ cmds = <<>>
  /\ cmd_drain = [submit_details |-> <<>>, fence |-> FenceHandle]
  /\ tx = [valid |-> FALSE, submit_details |-> <<>>]
  /\ dev = <<>>
  /\ queue = <<>>
  /\ fence = [signaled |-> FALSE, live |-> TRUE, by |-> 0]
  /\ lost = FALSE
  /\ err = ""
  /\ ncall = 0
  /\ ntransact = 0
  /\ qfam_props = <<{VK_QUEUE_GRAPHICS_BIT, VK_QUEUE_COMPUTE_BIT}>>
  /\ vk = NoInstance
  /\ mem_prop = <<{"DEVICE_LOCAL"}>>
  /\ ctxt = NoContext
  /\ NoResources

NextInst ==
  \/ initialize
  \/ create_ctxt
  \/ destroy_ctxt

SpecInst == InitInst /\ [][NextInst]_vars

(***************************************************************************)
(* Copying host memory into a buffer.  The memory of a buffer that can be  *)
(* looked at carries its bytes in the field data.                          *)
(***************************************************************************)
Bytes == 0..MaxByte

\* The device objects d, the memory of handle h holding the bytes data.
WithData(d, h, data) == [d EXCEPT ![h] = [data |-> data] @@ @]

\* scoped::MappedBuffer of the whole buffer: map_buf_mem when it is made,
\* unmap_buf_mem when it goes.  vkMapMemory fails on memory of a type that
\* is not host-visible.
CanMap(props, d, buf) ==
  "HOST_VISIBLE" \in props[d[buf.devmem].memoryTypeIndex + 1]

\* A copy_host2buf that copies from src.
copy_host2buf_from_src(props, d, v, src, dst, size) ==
  IF size = 0
  THEN [ok |-> TRUE, err |-> "", dev |-> d,
        vk |-> [v EXCEPT !.warn = "zero-sized copy is ignored"]]
  ELSE IF ~(dst.buf_cfg.size >= size)
  THEN [ok |-> FALSE, err |-> "dst buffser size is too small", dev |-> d,
        vk |-> v]
  ELSE IF ~CanMap(props, d, dst)
  THEN [ok |-> FALSE, err |-> "VkException", dev |-> d, vk |-> v]
  ELSE [ok |-> TRUE, err |-> "", vk |-> v,
        dev |-> [d EXCEPT ![dst.devmem].data =
                   [k \in DOMAIN @ |-> IF k <= size THEN src[k] ELSE @[k]]]]

\* copy_host2buf(src, dst, size) on the device objects d and the module
\* state v: std::memcpy((void*)mapped, mapped, size) copies the mapped bytes
\* onto themselves.
copy_host2buf_of(props, d, v, src, dst, size) ==
  IF size = 0
  THEN [ok |-> TRUE, err |-> "", dev |-> d,
        vk |-> [v EXCEPT !.warn = "zero-sized copy is ignored"]]
  ELSE IF ~(dst.buf_cfg.size >= size)
  THEN [ok |-> FALSE, err |-> "dst buffser size is too small", dev |-> d,
        vk |-> v]
  ELSE IF ~CanMap(props, d, dst)
  THEN [ok |-> FALSE, err |-> "VkException", dev |-> d, vk |-> v]
  ELSE LET mapped == d[dst.devmem].data
       IN [ok |-> TRUE, err |-> "", vk |-> v,
           dev |-> [d EXCEPT ![dst.devmem].data =
                      [k \in DOMAIN @ |->
                         IF k <= size THEN mapped[k] ELSE @[k]]]]

\* copy_host2buf of the size bytes src into the b-th Buffer the host holds.
copy_host2buf(src, b, size) ==
  /\ pc = "idle"
  /\ ctxt.live
  /\ b \in 1..Len(bufs)
  /\ bufs[b].buf # VK_NULL_HANDLE
  /\ LET r == copy_host2buf_of(mem_prop, rsc_dev, vk, src, bufs[b], size)
     IN /\ rsc_dev' = r.dev
        /\ vk' = r.vk
        /\ err' = r.err
  /\ UNCHANGED <<mem_prop, bufs, imgs, task_vars, qfam_props, ctxt, pc,
                 transact, cmds, cmd_drain, tx, dev, queue, fence, lost,
                 ncall, ntransact>>

\* A buffer of any size up to MaxCopySize holding any bytes, on memory that
\* can be mapped or on memory that cannot.
InitCopy ==
  /\ pc = "idle"
  /\ transact = EmptyTransact
  /\ cmds = <<>>
  /\ cmd_drain = [submit_details |-> <<>>, fence |-> FenceHandle]
  /\ tx = [valid |-> FALSE, submit_details |-> <<>>]
  /\ dev = <<>>
  /\ queue = <<>>
  /\ fence = [signaled |-> FALSE, live |-> TRUE, by |-> 0]
  /\ lost = FALSE
  /\ err = ""
  /\ ncall = 0
  /\ ntransact = 0
  /\ qfam_props = <<{VK_QUEUE_GRAPHICS_BIT, VK_QUEUE_COMPUTE_BIT}>>
  /\ vk = Initialized
  /\ mem_prop \in {<<{"HOST_VISIBLE", "HOST_COHERENT"}>>, <<{"DEVICE_LOCAL"}>>}
  /\ ctxt = [live |-> TRUE,
             queue_allocs |-> queue_allocs(qfam_props),
             mem_ty_idxs_by_host_access |->
               [host_access \in MemoryAccesses |-> <<0>>]]
  /\ \E size \in 1..MaxCopySize :
       \E data \in [1..size -> Bytes] :
         LET b == _create_buf(ctxt, <<>>,
                              [host_access |-> L_MEMORY_ACCESS_WRITE_ONLY,
                               usage |-> {"STAGING"}, size |-> size], {0})
         IN /\ bufs = <<b.ret>>
            /\ rsc_dev = WithData(b.dev, b.ret.devmem, data)
  /\ imgs = <<>>
  /\ tasks = <<>>
  /\ rsc_pools = <<>>
  /\ passes = <<>>
  /\ timestamps = <<>>

\* The host memory a copy can be given: size bytes, of any values.
HostBytes(size) == [1..size -> Bytes]

NextCopy ==
  \E size \in 0..(MaxCopySize + 1) :
    \E src \in HostBytes(size) : copy_host2buf(src, 1, size)

SpecCopy == InitCopy /\ [][NextCopy]_vars

(***************************************************************************)
(* The life of every kind of object.  A buffer, an image and a task have   *)
(* been made from the context; pools, passes, timestamps, transactions and *)
(* submissions are made, and everything is destroyed, any number of times  *)
(* in any order.                                                           *)
(***************************************************************************)
LifeBufCfg ==
  [host_access |-> L_MEMORY_ACCESS_NONE, usage |-> {"STORAGE"}, size |-> 1]
LifeImgCfg ==
  [host_access |-> L_MEMORY_ACCESS_NONE, usage |-> {"SAMPLED"},
   fmt |-> [ncomp |-> 4, int_exp2 |-> 1, is_signed |-> FALSE,
            is_single |-> FALSE, is_half |-> FALSE]]

InitLife ==
  /\ pc = "idle"
  /\ transact = EmptyTransact
  /\ cmds = <<>>
  /\ cmd_drain = [submit_details |-> <<>>, fence |-> FenceHandle]
  /\ tx = [valid |-> FALSE, submit_details |-> <<>>]
  /\ dev = <<>>
  /\ queue = <<>>
  /\ fence = [signaled |-> FALSE, live |-> TRUE, by |-> 0]
  /\ lost = FALSE
  /\ err = ""
  /\ ncall = 0
  /\ ntransact = 0
  /\ qfam_props = <<{VK_QUEUE_GRAPHICS_BIT, VK_QUEUE_COMPUTE_BIT}>>
  /\ vk = Initialized
  /\ mem_prop = <<{"DEVICE_LOCAL"}>>
  /\ ctxt = [live |-> TRUE,
             queue_allocs |-> queue_allocs(qfam_props),
             mem_ty_idxs_by_host_access |->
               [host_access \in MemoryAccesses |-> <<0>>]]
  /\ LET b == _create_buf(ctxt, ContextObjects, LifeBufCfg, {0})
         i == _create_img(ctxt, b.dev, LifeImgCfg, {0})
         t == _create_comp_task(i.dev, <<"STORAGE_BUFFER">>)
     IN /\ bufs = <<b.ret>>
        /\ imgs = <<i.ret>>
        /\ tasks = <<t.ret>>
        /\ rsc_dev = t.dev
  /\ rsc_pools = <<>>
  /\ passes = <<>>
  /\ timestamps = <<>>

NextLife ==
  \/ \E t \in 1..MaxTasks : create_rsc_pool(t)
  \/ \E a \in 1..MaxImgs : create_pass(a)
  \/ create_timestamp
  \/ create_transact_begin
  \/ create_transact_end
  \/ submit_cmds_begin /\ ncall = 0
  \/ submit_cmds_end
  \/ RecordCmd([ty |-> "dispatch"])
  \/ wait_cmd_drain_begin
  \/ wait_cmd_drain_timeout
  \/ wait_cmd_drain_success
  \/ \E i \in 1..Len(queue) : DeviceStart(i)
  \/ \E i \in 1..Len(queue) : DeviceFinish(i)
  \/ \E i \in 1..MaxBufs : destroy_buf(i)
  \/ \E i \in 1..MaxImgs : destroy_img(i)
  \/ \E i \in 1..MaxTasks : destroy_task(i)
  \/ \E i \in 1..MaxPasses : destroy_pass(i)
  \/ \E i \in 1..MaxRscPools : destroy_rsc_pool(i)
  \/ destroy_cmd_drain
  \/ \E i \in 1..MaxTimestamps : destroy_timestamp(i)
  \/ destroy_transact
  \/ destroy_ctxt

SpecLife == InitLife /\ [][NextLife]_vars

\* The device finishes what it can start, and the host thread, when its
\* vkWaitForFences can return something other than VK_TIMEOUT, gets it.
Fairness ==
  /\ WF_vars(DeviceStep)
  /\ WF_vars(wait_cmd_drain_success \/ wait_cmd_drain_error)

LiveSpec == SpecDev /\ Fairness

(***************************************************************************)
(* Properties.                                                             *)
(***************************************************************************)
Recording == pc \in {"submit_cmds", "create_transact"}

Classes(submit_details) ==
  [i \in 1..Len(submit_details) |-> submit_details[i].submit_ty]

AdjacentDiffer(s) == \A i \in 1..(Len(s) - 1) : s[i] # s[i + 1]

\* The class a command asks for, by its tag.
RequiredClass(cmd) ==
  CASE cmd.ty = "dispatch" -> L_SUBMIT_TYPE_COMPUTE
    [] cmd.ty \in {"draw", "draw_indexed", "begin_pass", "end_pass"} ->
         L_SUBMIT_TYPE_GRAPHICS
    [] cmd.ty = "set_submit_ty" -> cmd.submit_ty
    [] OTHER -> L_SUBMIT_TYPE_ANY

\* The classes of the maximal runs, extended by a command of class c: class
\* any joins the current run, another class joins it only if it is the same.
ExtendRuns(runs, c) ==
  IF c = L_SUBMIT_TYPE_ANY THEN runs
  ELSE IF runs # <<>> /\ Last(runs) = c THEN runs
  ELSE Append(runs, c)

RECURSIVE ExtendRunsAll(_, _, _)
ExtendRunsAll(runs, cs, i) ==
  IF i > Len(cs) THEN runs
  ELSE ExtendRunsAll(ExtendRuns(runs, cs[i]), cs, i + 1)

\* Runs of a command sequence when every command counts by its tag alone.
RECURSIVE RunsByTag(_, _, _)
RunsByTag(runs, cs, i) ==
  IF i > Len(cs) THEN runs
  ELSE RunsByTag(ExtendRuns(runs, RequiredClass(cs[i])), cs, i + 1)

\* Runs of a command sequence when inline-transaction(T) counts as the
\* classes of T's submit details, in order.
RECURSIVE RunsWithInline(_, _, _, _)
RunsWithInline(runs, cs, i, sub) ==
  IF i > Len(cs) THEN runs
  ELSE RunsWithInline(
         IF cs[i].ty = "inline_transact"
         THEN ExtendRunsAll(runs, Classes(sub), 1)
         ELSE ExtendRuns(runs, RequiredClass(cs[i])),
         cs, i + 1, sub)

\* C1 as stated: the submit details of a recording are exactly the maximal
\* runs of its commands by effective class, every command other than
\* dispatch, the draws, the pass commands and set-submit-type taking the class
\* of the current detail (inline-transaction included).
C1_AsStated ==
  Recording =>
    /\ Classes(transact.submit_details) = RunsByTag(<<>>, cmds, 1)
    /\ AdjacentDiffer(Classes(transact.submit_details))

\* C1 (amended): the submit details of a recording are exactly the maximal
\* runs of its commands by effective class, where inline-transaction(T)
\* counts as the classes of T's submit details in order: adjacent details
\* differ in class and there are as many details as runs.
C1_ClassContiguity ==
  Recording =>
    /\ Classes(transact.submit_details)
         = RunsWithInline(<<>>, cmds, 1, tx.submit_details)
    /\ AdjacentDiffer(Classes(transact.submit_details))

\* set-submit-type(compute); dispatch; draw gives two details, compute then
\* graphics.
C1_Witness ==
  /\ pc = "submit_cmds"
  /\ cmds = <<[ty |-> "set_submit_ty", submit_ty |-> L_SUBMIT_TYPE_COMPUTE],
              [ty |-> "dispatch"], [ty |-> "draw"]>>
  /\ Classes(transact.submit_details)
       = <<L_SUBMIT_TYPE_COMPUTE, L_SUBMIT_TYPE_GRAPHICS>>

SemaphoreChain(submit_details) ==
  \A i \in 1..Len(submit_details) :
    submit_details[i].wait_sema =
      IF i = 1 THEN VK_NULL_HANDLE ELSE submit_details[i - 1].signal_sema

\* C2: in every submit-details list (of the recording in progress, of the
\* drain, of the transaction) detail 0 waits on no semaphore and detail i > 0
\* waits on the signal semaphore of detail i - 1.
C2_SemaphoreChain ==
  /\ SemaphoreChain(transact.submit_details)
  /\ SemaphoreChain(cmd_drain.submit_details)
  /\ SemaphoreChain(tx.submit_details)

C2_Witness ==
  /\ Len(cmd_drain.submit_details) >= 2
  /\ Len(tx.submit_details) >= 2
  /\ cmd_drain.submit_details[2].wait_sema # VK_NULL_HANDLE

\* The indices of the batches a submit_cmds call put on the queues, in
\* submission order.
RECURSIVE BatchesFrom(_, _)
BatchesFrom(call, i) ==
  IF i > Len(queue) THEN <<>>
  ELSE IF queue[i].call = call THEN <<i>> \o BatchesFrom(call, i + 1)
  ELSE BatchesFrom(call, i + 1)
Batches(call) == BatchesFrom(call, 1)

Cmdbufs(submit_details) ==
  [i \in 1..Len(submit_details) |-> submit_details[i].cmdbuf]

BatchCmdbufs(call) ==
  LET b == Batches(call) IN [i \in 1..Len(b) |-> queue[b[i]].cmdbuf]

\* The call that submitted the details the drain holds.
DrainCall ==
  LET i == CHOOSE k \in 1..Len(queue) :
             queue[k].cmdbuf = cmd_drain.submit_details[1].cmdbuf
  IN queue[i].call

\* C3: the submit details of a primary recording are submitted in list
\* order, each once; the batch of detail i > 0 waits on the semaphore the
\* batch of detail i - 1 signals, and it is not started on the device before
\* the batch of detail i - 1 is done, whatever queues the two are on.
C3_SubmissionOrder ==
  /\ \A i, j \in 1..Len(queue) : queue[i].cmdbuf = queue[j].cmdbuf => i = j
  /\ pc = "submit_cmds" /\ transact.submit_details # <<>> =>
       BatchCmdbufs(ncall) =
         SubSeq(Cmdbufs(transact.submit_details), 1,
                Len(transact.submit_details) - 1)
  /\ cmd_drain.submit_details # <<>> =>
       /\ \E k \in 1..Len(queue) :
            queue[k].cmdbuf = cmd_drain.submit_details[1].cmdbuf
       /\ BatchCmdbufs(DrainCall) = Cmdbufs(cmd_drain.submit_details)
  /\ \A c \in 1..ncall :
       LET b == Batches(c)
       IN \A i \in 1..Len(b) :
            /\ queue[b[i]].wait_sema =
                 IF i = 1 THEN VK_NULL_HANDLE ELSE queue[b[i - 1]].signal_sema
            /\ i > 1 /\ queue[b[i]].st # "queued" => queue[b[i - 1]].st = "done"

\* Two batches of one call on different queues, the first done and the second
\* running.
C3_Witness ==
  \E i, j \in 1..Len(queue) :
    /\ i < j
    /\ queue[i].call = queue[j].call
    /\ queue[i].submit_ty # queue[j].submit_ty
    /\ queue[j].wait_sema = queue[i].signal_sema
    /\ queue[i].st = "done"
    /\ queue[j].st = "running"
    /\ Len(cmd_drain.submit_details) = 2

\* C4: only the last batch of a submit_cmds call carries the drain's fence
\* (a boundary flush carries none), and whenever the fence is signalled every
\* batch of the call whose batch signalled it is done.
C4_FenceWithLast ==
  /\ \A i, j \in 1..Len(queue) :
       i < j /\ queue[i].call = queue[j].call => queue[i].fence = VK_NULL_HANDLE
  /\ pc = "submit_cmds" =>
       \A i \in 1..Len(queue) :
         queue[i].call = ncall => queue[i].fence = VK_NULL_HANDLE
  /\ cmd_drain.submit_details # <<>> =>
       \E k \in 1..Len(queue) :
         /\ queue[k].cmdbuf = Last(cmd_drain.submit_details).cmdbuf
         /\ queue[k].fence = cmd_drain.fence
  /\ fence.signaled =>
       /\ fence.by \in 1..ncall
       /\ \A i \in 1..Len(queue) :
            queue[i].call = fence.by => queue[i].st = "done"

\* The fence is signalled after a call that made a boundary flush.
C4_Witness ==
  /\ fence.signaled
  /\ Len(Batches(fence.by)) >= 2
  /\ \E i \in 1..Len(queue) :
       queue[i].call = fence.by /\ queue[i].fence = VK_NULL_HANDLE

\* The driver calls that open a detail of handle h after the detail of handle
\* prev, in a recording of the given level.
BoundaryCalls(level, prev, h) ==
  <<<<"end", prev>>>>
    \o (IF level = VK_COMMAND_BUFFER_LEVEL_PRIMARY
        THEN <<<<"submit", prev>>>> ELSE <<>>)
    \o <<<<"push", h>>, <<"begin", h>>>>

\* A step of the recording that accepts command c.
Accepts(c) ==
  /\ Recording
  /\ pc' = pc
  /\ cmds' = Append(cmds, c)

C5_NoSecondarySubmit ==
  /\ \A i \in 1..Len(queue) :
       dev[queue[i].cmdbuf].level = VK_COMMAND_BUFFER_LEVEL_PRIMARY
  /\ pc = "create_transact" =>
       \A p \in 1..Len(transact.log) : transact.log[p][1] # "submit"

C5_BoundaryStep ==
  \A c \in Commands :
    /\ Accepts(c)
    /\ c.ty # "inline_transact"
    /\ RequiredClass(c) # L_SUBMIT_TYPE_ANY
    /\ transact.submit_details # <<>>
    /\ RequiredClass(c) # Last(transact.submit_details).submit_ty
    => LET prev == Last(transact.submit_details)
           new == Last(transact'.submit_details)
       IN /\ Len(transact'.submit_details) = Len(transact.submit_details) + 1
          /\ new.submit_ty = RequiredClass(c)
          /\ transact'.log
               = transact.log \o BoundaryCalls(transact.level, prev.cmdbuf,
                                               new.cmdbuf)
          /\ IF transact.level = VK_COMMAND_BUFFER_LEVEL_PRIMARY
             THEN /\ Len(queue') = Len(queue) + 1
                  /\ Last(queue').cmdbuf = prev.cmdbuf
                  /\ Last(queue').wait_sema = prev.wait_sema
                  /\ Last(queue').signal_sema = prev.signal_sema
             ELSE queue' = queue

\* C5: when a command's required class differs from the class of the last
\* submit detail, the last detail's command buffer is ended, then (only in a
\* primary recording) submitted with its wait and signal semaphores, then the
\* new detail is pushed and begun; a secondary recording submits nothing.
C5_BoundaryFlush == []C5_NoSecondarySubmit /\ [][C5_BoundaryStep]_vars

\* A class change inside create_transact: two details, nothing on a queue.
C5_Witness ==
  /\ pc = "create_transact"
  /\ Len(transact.submit_details) = 2
  /\ transact.log = <<<<"push", 1>>, <<"begin", 1>>>>
                      \o BoundaryCalls(VK_COMMAND_BUFFER_LEVEL_SECONDARY, 1, 2)
  /\ queue = <<>>

\* The commands of class any.
AnyClassCmds ==
  {c \in Commands :
     c.ty \in {"copy_buf", "copy_buf2img", "copy_img2buf", "copy_img",
               "write_timestamp", "buf_barrier", "img_barrier"}
     \/ c = [ty |-> "set_submit_ty", submit_ty |-> L_SUBMIT_TYPE_ANY]}

\* A copy whose source and destination differ in size.
SizeMismatch(c) ==
  \/ c.ty = "copy_buf" /\ c.src_size # c.dst_size
  \/ c.ty = "copy_img" /\ c.src # c.dst

\* What a class-any command c does to the recording in progress: it goes into
\* the last detail's command buffer (set-submit-type records nothing) and no
\* detail is opened, ended or submitted; with no detail the call fails with
\* "cannot infer submit type" and creates nothing.
AnyClassHandled(c) ==
  LET w == _record_cmd(World(transact, dev, queue, ncall), c, tx)
      n == Len(transact.submit_details)
  IN IF n = 0
     THEN /\ ~w.ok
          /\ w.err = "cannot infer submit type for submit-type-independent command"
          /\ w.submit_details = <<>>
          /\ w.dev = dev
          /\ w.queue = queue
     ELSE /\ w.ok
          /\ w.ret = transact.submit_details[n].cmdbuf
          /\ w.submit_details = transact.submit_details
          /\ w.log = transact.log
          /\ w.dev = dev
          /\ w.queue = queue
          /\ IF c.ty = "set_submit_ty" THEN w.recorded = transact.recorded
             ELSE \E op \in {Last(w.recorded[n])} :
                    /\ w.recorded =
                         [transact.recorded EXCEPT ![n] = Append(@, op)]
                    /\ IF c.ty \in {"buf_barrier", "img_barrier"}
                       THEN op.ty = c.ty
                       ELSE op = c

\* C6 as stated: every command of class any is handled so.
C6_AsStated ==
  Recording => \A c \in AnyClassCmds : AnyClassHandled(c)

\* C6 (amended): every command of class any whose own arguments pass (a
\* copy-buffer or copy-image whose sizes match) is handled so; a copy whose
\* sizes differ fails with its size-mismatch error, and it too opens, ends
\* and submits nothing.
C6_AnyClass ==
  Recording =>
    \A c \in AnyClassCmds :
      IF SizeMismatch(c)
      THEN LET w == _record_cmd(World(transact, dev, queue, ncall), c, tx)
           IN /\ ~w.ok
              /\ w.err \in {"buffer copy size mismatched",
                            "image copy size mismatched"}
              /\ w.submit_details = transact.submit_details
              /\ w.log = transact.log
              /\ w.dev = dev
              /\ w.queue = queue
      ELSE AnyClassHandled(c)

\* A class-any command came first and the call failed, creating nothing.
C6_Witness ==
  /\ pc = "idle"
  /\ err = "cannot infer submit type for submit-type-independent command"
  /\ dev = <<>>
  /\ queue = <<>>

\* The secondary command buffers executed by a recording, in recording order,
\* each with the class of the outer detail that executes it.
RECURSIVE ExecutedFrom(_, _, _)
ExecutedFrom(t, k, j) ==
  IF k > Len(t.submit_details) THEN <<>>
  ELSE IF j > Len(t.recorded[k]) THEN ExecutedFrom(t, k + 1, 1)
  ELSE (IF t.recorded[k][j].ty = "execute_commands"
        THEN <<<<t.submit_details[k].submit_ty, t.recorded[k][j].cmdbuf>>>>
        ELSE <<>>)
       \o ExecutedFrom(t, k, j + 1)

Executed(t) == ExecutedFrom(t, 1, 1)

\* The number of commands recorded by a recording.
RECURSIVE NRecordedFrom(_, _)
NRecordedFrom(t, k) ==
  IF k > Len(t.recorded) THEN 0
  ELSE Len(t.recorded[k]) + NRecordedFrom(t, k + 1)

C10_InlineStep ==
  \A c \in InlineTransactCmds :
    Accepts(c) /\ pc = "submit_cmds" =>
      LET sub == tx.submit_details
          old == transact.submit_details
          new == transact'.submit_details
      IN /\ Executed(transact')
              = Executed(transact)
                  \o [i \in 1..Len(sub) |-> <<sub[i].submit_ty, sub[i].cmdbuf>>]
         /\ NRecordedFrom(transact', 1) = NRecordedFrom(transact, 1) + Len(sub)
         /\ Classes(new) = ExtendRunsAll(Classes(old), Classes(sub), 1)
         /\ SubSeq(new, 1, Len(old)) = old
         /\ Len(queue') - Len(queue)
              = Len(new) - Len(old) - (IF old = <<>> /\ new # <<>> THEN 1 ELSE 0)
         /\ \A k \in 1..(Len(queue') - Len(queue)) :
              LET k0 == IF old = <<>> THEN k ELSE Len(old) + k - 1
              IN queue'[Len(queue) + k].cmdbuf = new[k0].cmdbuf

\* C10: an inline-transaction(T) in a primary recording walks T's submit
\* details in list order and records exactly one execute-secondary per
\* detail, each into an outer detail of that detail's class; a new outer
\* detail is opened, with the boundary flush of the previous one, exactly
\* when that class differs from the current outer class.
C10_InlineTransact == [][C10_InlineStep]_vars

\* A two-class transaction was inlined after a dispatch: its compute detail
\* is executed in the open compute detail, its graphics detail in a new one.
C10_Witness ==
  /\ pc = "submit_cmds"
  /\ Len(tx.submit_details) = 2
  /\ tx.submit_details[1].submit_ty = L_SUBMIT_TYPE_COMPUTE
  /\ Len(cmds) = 2
  /\ cmds[1].ty = "dispatch"
  /\ cmds[2].ty = "inline_transact"
  /\ Len(transact.submit_details) = 2
  /\ Executed(transact)
       = <<<<L_SUBMIT_TYPE_COMPUTE, tx.submit_details[1].cmdbuf>>,
           <<L_SUBMIT_TYPE_GRAPHICS, tx.submit_details[2].cmdbuf>>>>
  /\ Len(queue) = 1

\* How many times each command pool and each semaphore has been destroyed.
Destroyed(d) == [h \in 1..Len(d) |-> <<d[h].pool, d[h].sema>>]

\* The drain as create_cmd_drain leaves it.
FreshDrain ==
  /\ cmd_drain = [submit_details |-> <<>>, fence |-> FenceHandle]
  /\ fence.live
  /\ ~fence.signaled

C7_WaitStep ==
  pc = "wait_cmd_drain" =>
    /\ ~fence.signaled =>
         /\ Destroyed(dev') = Destroyed(dev)
         /\ cmd_drain' = cmd_drain
         /\ pc' = "wait_cmd_drain" \/ (pc' = "idle" /\ err' = "VkException")
    /\ pc' = "idle" /\ err' = "" => fence.signaled /\ FreshDrain'

\* C7: wait_cmd_drain neither returns nor destroys a command pool or a
\* semaphore of the drain while the fence is unsignalled; when it returns
\* successfully the drain's submit details are empty and the fence is reset,
\* which is the state create_cmd_drain leaves.
C7_WaitThenReset == [][C7_WaitStep]_vars

\* wait_cmd_drain has returned: pools destroyed, the drain fresh again.
C7_Witness ==
  /\ pc = "idle"
  /\ err = ""
  /\ FreshDrain
  /\ \E h \in 1..Len(dev) : dev[h].pool = 1 /\ dev[h].sema = 1

C8_LoopExit ==
  pc = "wait_cmd_drain" /\ pc' # "wait_cmd_drain" =>
    \/ /\ fence.signaled
       /\ err' = ""
    \/ /\ lost
       /\ err' = "VkException"
       /\ cmd_drain' = cmd_drain
       /\ fence' = fence
       /\ Destroyed(dev') = Destroyed(dev)

\* C8: if the device keeps finishing the batches it can run, a
\* wait_cmd_drain on a drain that holds the submit details of a successful
\* submit_cmds eventually returns; it leaves its loop only on a signalled
\* fence or on a device error, and on a device error the submit details and
\* the fence are left as they were.
C8_WaitReturns ==
  /\ (pc = "wait_cmd_drain" /\ cmd_drain.submit_details # <<>>)
       ~> (pc # "wait_cmd_drain")
  /\ [][C8_LoopExit]_vars

\* wait_cmd_drain ended with a device error: details kept, fence not reset.
C8_Witness ==
  /\ pc = "idle"
  /\ err = "VkException"
  /\ lost
  /\ cmd_drain.submit_details # <<>>
  /\ \A i \in 1..Len(cmd_drain.submit_details) :
       dev[cmd_drain.submit_details[i].cmd_pool].pool = 0

\* The handles of the submit details the drain holds.
DrainHandles ==
  {cmd_drain.submit_details[i].cmd_pool :
     i \in 1..Len(cmd_drain.submit_details)}

\* The handles of the submit details of the submit_cmds calls that returned.
SubmittedHandles ==
  {queue[i].cmdbuf : i \in
     {i \in 1..Len(queue) :
        \E j \in 1..Len(queue) :
          queue[j].call = queue[i].call /\ queue[j].fence # VK_NULL_HANDLE}}

\* C9: every command pool and semaphore of a submit_cmds call that returned
\* is either still held by the drain's submit details, undestroyed, or has
\* been destroyed exactly once.
C9_OwnedUntilTornDown ==
  \A h \in SubmittedHandles :
    IF h \in DrainHandles
    THEN dev[h].pool = 0 /\ dev[h].sema = 0
    ELSE dev[h].pool = 1 /\ dev[h].sema = 1

NestedInline == "nested inline transaction is not allowed"

C11_Rejected ==
  pc = "create_transact" =>
    /\ Executed(transact) = <<>>
    /\ \A c \in InlineTransactCmds :
         LET w == _record_cmd(World(transact, dev, queue, ncall), c, tx)
         IN /\ ~w.ok
            /\ w.err = NestedInline
            /\ TransactOf(w) = transact
            /\ w.dev = dev
            /\ w.queue = queue

C11_RejectStep ==
  err' = NestedInline /\ err # NestedInline =>
    /\ pc = "create_transact"
    /\ pc' = "idle"
    /\ dev' = dev
    /\ queue' = queue
    /\ tx' = tx

\* C11: an inline-transaction command in a secondary recording (inside
\* create_transact) fails with "nested inline transaction is not allowed";
\* the rejected command records no execute-secondary and opens no submit
\* detail, and the call that made it creates no transaction.
C11_NestedInlineRejected == []C11_Rejected /\ [][C11_RejectStep]_vars

\* create_transact opened a detail, then met an inline-transaction and failed.
C11_Witness ==
  /\ pc = "idle"
  /\ err = NestedInline
  /\ Len(dev) = 1
  /\ ~tx.valid

\* The handles of the transaction's submit details.
TransactHandles ==
  {tx.submit_details[i].cmdbuf : i \in 1..Len(tx.submit_details)}

\* How many of the commands cs are inline-transaction commands.
RECURSIVE NInline(_, _)
NInline(cs, i) ==
  IF i > Len(cs) THEN 0
  ELSE (IF cs[i].ty = "inline_transact" THEN 1 ELSE 0) + NInline(cs, i + 1)

\* The sequence s, n times over.
RECURSIVE Repeat(_, _)
Repeat(s, n) == IF n = 0 THEN <<>> ELSE s \o Repeat(s, n - 1)

C12_SameEveryTime ==
  pc = "submit_cmds" =>
    [i \in 1..Len(Executed(transact)) |-> Executed(transact)[i][2]]
      = Repeat(Cmdbufs(tx.submit_details), NInline(cmds, 1))

C12_Frame ==
  tx.valid =>
    /\ tx' = tx
    /\ \A h \in TransactHandles : dev'[h] = dev[h]

\* C12: once created, a transaction's submit details and the command
\* buffers, command pools and semaphores they name are changed by no
\* recording step, an inlining included; every inlining into a primary
\* recording records the same execute-secondary operations, so k inlinings
\* record the transaction's command buffers k times over.
C12_InlineLeavesTransact == []C12_SameEveryTime /\ [][C12_Frame]_vars

\* A transaction of two details inlined twice in one submit_cmds.
C12_Witness ==
  /\ pc = "submit_cmds"
  /\ NInline(cmds, 1) = 2
  /\ Len(tx.submit_details) = 2
  /\ Len(Executed(transact)) = 4
  /\ \A h \in TransactHandles : dev[h].cmdbuf = "executable"

\* The classes the physical device has a queue family for.
Capable(submit_ty) ==
  \E i \in 1..Len(qfam_props) :
    (IF submit_ty = L_SUBMIT_TYPE_GRAPHICS
     THEN VK_QUEUE_GRAPHICS_BIT ELSE VK_QUEUE_COMPUTE_BIT) \in qfam_props[i]

\* Recording command c on the context: done in a detail of its class if the
\* class is supported, failing with "unsupported" and opening nothing if not.
FailsFastIfUnsupported(c) ==
  LET w == _record_cmd(World(transact, dev, queue, ncall), c, tx)
  IN IF ctxt.queue_allocs[RequiredClass(c)] = VK_QUEUE_FAMILY_IGNORED
     THEN /\ ~w.ok
          /\ w.err = "unsupported"
          /\ TransactOf(w) = transact
          /\ w.dev = dev
          /\ w.queue = queue
     ELSE /\ w.ok
          /\ Last(w.submit_details).submit_ty = RequiredClass(c)

\* C13: on a device that has queue families, create_ctxt succeeds (the
\* process does not die in it) whether or not there is a family for every
\* class, a class is marked unsupported exactly when no family has its
\* capability, and dispatch, draw, draw-indexed, begin-render-pass and
\* end-render-pass fail with "unsupported", opening no submit detail, exactly
\* when their class is unsupported.
C13_UnsupportedClass ==
  /\ qfam_props # <<>> /\ cmds = <<>> => pc # "crashed"
  /\ ctxt.live =>
       \A submit_ty \in {L_SUBMIT_TYPE_GRAPHICS, L_SUBMIT_TYPE_COMPUTE} :
         ctxt.queue_allocs[submit_ty] = VK_QUEUE_FAMILY_IGNORED
           <=> ~Capable(submit_ty)
  /\ pc = "submit_cmds" =>
       \A c \in CtxtCommands :
         RequiredClass(c) # L_SUBMIT_TYPE_ANY => FailsFastIfUnsupported(c)

BufferMismatch == "buffer copy size mismatched"
ImageMismatch == "image copy size mismatched"

C14_Refused ==
  Recording =>
    \A c \in CopyBufCmds \cup CopyImgCmds :
      SizeMismatch(c) =>
        LET w == _record_cmd(World(transact, dev, queue, ncall), c, tx)
        IN /\ ~w.ok
           /\ w.err = IF c.ty = "copy_buf" THEN BufferMismatch ELSE ImageMismatch
           /\ TransactOf(w) = transact
           /\ w.dev = dev
           /\ w.queue = queue

C14_RefuseStep ==
  err' \in {BufferMismatch, ImageMismatch} /\ err' # err =>
    /\ Recording
    /\ pc' = "idle"
    /\ dev' = dev
    /\ queue' = queue
    /\ cmd_drain' = cmd_drain
    /\ tx' = tx

\* C14: a copy-buffer whose source and destination sizes differ, and a
\* copy-image whose source and destination differ in width or height, fail
\* with their size-mismatch error; the failing command opens, ends and
\* submits no submit detail and records no copy.
C14_CopySizeMismatch == []C14_Refused /\ [][C14_RefuseStep]_vars

\* A mismatched copy-buffer met with a detail open: the call failed, the
\* detail's command buffer was neither ended nor submitted.
C14_Witness ==
  /\ pc = "idle"
  /\ err = BufferMismatch
  /\ Len(dev) = 1
  /\ dev[1].cmdbuf = "recording"
  /\ queue = <<>>

\* A copy-buffer whose source and destination both have size 0.
ZeroSized(op) ==
  /\ op.ty = "copy_buf"
  /\ op.src_size = 0
  /\ op.dst_size = 0

\* C15: a copy-buffer whose source and destination both have size 0 records
\* nothing: no command buffer of a recording holds a zero-sized copy, and the
\* recording goes on after it.
C15_ZeroSizedCopy ==
  Recording =>
    /\ \A k \in 1..Len(transact.recorded) :
         \A j \in 1..Len(transact.recorded[k]) :
           ~ZeroSized(transact.recorded[k][j])
    /\ \A c \in CopyBufCmds :
         ZeroSized(c) /\ transact.submit_details # <<>> =>
           _record_cmd(World(transact, dev, queue, ncall), c, tx).ok

C16_SetStep ==
  \A c \in SetSubmitTypeCmds :
    Accepts(c) /\ c.submit_ty # L_SUBMIT_TYPE_ANY =>
      LET old == transact.submit_details
          new == transact'.submit_details
          opens == old = <<>> \/ Last(old).submit_ty # c.submit_ty
      IN /\ new # <<>>
         /\ Last(new).submit_ty = c.submit_ty
         /\ Len(new) = Len(old) + (IF opens THEN 1 ELSE 0)
         /\ SubSeq(new, 1, Len(old)) = old
         /\ transact'.recorded =
              IF opens THEN Append(transact.recorded, <<>>)
              ELSE transact.recorded

C16_AlwaysTaken ==
  Recording =>
    \A c \in SetSubmitTypeCmds :
      c.submit_ty # L_SUBMIT_TYPE_ANY =>
        _record_cmd(World(transact, dev, queue, ncall), c, tx).ok

\* C16: set-submit-type(graphics) and set-submit-type(compute) are always
\* taken, leave the recording with a last submit detail of exactly that
\* class, open a new detail unless the current one already has the class,
\* and record no command into any command buffer.
C16_SetSubmitType == []C16_AlwaysTaken /\ [][C16_SetStep]_vars

\* Two set-submit-type commands opened two details that hold no command.
C16_Witness ==
  /\ pc = "submit_cmds"
  /\ cmds = <<[ty |-> "set_submit_ty", submit_ty |-> L_SUBMIT_TYPE_COMPUTE],
              [ty |-> "set_submit_ty", submit_ty |-> L_SUBMIT_TYPE_GRAPHICS]>>
  /\ Classes(transact.submit_details)
       = <<L_SUBMIT_TYPE_COMPUTE, L_SUBMIT_TYPE_GRAPHICS>>
  /\ transact.recorded = <<<<>>, <<>>>>

\* What the barrier table gives for an image used as `usage` and accessed as
\* `dev_access` on the side `side` of a barrier ("src" or "dst").
ImgBarrierTable ==
  [side \in {"src", "dst"} |->
     [p \in {<<{"SAMPLED"}, {"READ"}>>, <<{"STORAGE"}, {"READ"}>>,
              <<{"STORAGE"}, {"WRITE"}>>, <<{"STORAGE"}, {"READ", "WRITE"}>>,
              <<{"PRESENT"}, {"READ"}>>}
            \cup (IF side = "src"
                  THEN {<<{"STAGING"}, {"READ"}>>, <<{"ATTACHMENT"}, {"WRITE"}>>}
                  ELSE {<<{"STAGING"}, {"WRITE"}>>, <<{"ATTACHMENT"}, {"READ"}>>})
        |->
        CASE p = <<{"STAGING"}, {"READ"}>> ->
               <<{"TRANSFER_READ"}, {"TRANSFER"}, "TRANSFER_SRC_OPTIMAL">>
          [] p = <<{"STAGING"}, {"WRITE"}>> ->
               <<{"TRANSFER_WRITE"}, {"TRANSFER"}, "TRANSFER_DST_OPTIMAL">>
          [] p = <<{"SAMPLED"}, {"READ"}>> ->
               <<{"SHADER_READ"}, {"FRAGMENT_SHADER", "COMPUTE_SHADER"},
                 "SHADER_READ_ONLY_OPTIMAL">>
          [] p = <<{"STORAGE"}, {"READ"}>> ->
               <<{"SHADER_READ"}, {"FRAGMENT_SHADER", "COMPUTE_SHADER"},
                 "GENERAL">>
          [] p = <<{"STORAGE"}, {"WRITE"}>> ->
               <<{"SHADER_WRITE"}, {"FRAGMENT_SHADER", "COMPUTE_SHADER"},
                 "GENERAL">>
          [] p = <<{"STORAGE"}, {"READ", "WRITE"}>> ->
               <<{"SHADER_READ", "SHADER_WRITE"},
                 {"FRAGMENT_SHADER", "COMPUTE_SHADER"}, "GENERAL">>
          [] p = <<{"ATTACHMENT"}, {"WRITE"}>> ->
               <<{"COLOR_ATTACHMENT_WRITE"}, {"COLOR_ATTACHMENT_OUTPUT"},
                 "COLOR_ATTACHMENT_OPTIMAL">>
          [] p = <<{"ATTACHMENT"}, {"READ"}>> ->
               <<{"INPUT_ATTACHMENT_READ"}, {"FRAGMENT_SHADER"},
                 "COLOR_ATTACHMENT_OPTIMAL">>
          [] p = <<{"PRESENT"}, {"READ"}>> ->
               <<{}, {"BOTTOM_OF_PIPE"}, "PRESENT_SRC_KHR">>]]

\* A side the table lists, or the side none/none.
ImgSideListed(side, usage, dev_access) ==
  \/ <<usage, dev_access>> \in DOMAIN ImgBarrierTable[side]
  \/ usage = {} /\ dev_access = {}

\* A barrier can be recorded and a detail is open to take it.
BarrierEnabled ==
  /\ Recording
  /\ Len(cmds) < MaxCmds
  /\ NoBarrierYet
  /\ transact.submit_details # <<>>

\* The barrier the last command recorded, when the last command is a barrier.
BarrierRecorded ==
  /\ pc = "submit_cmds"
  /\ cmds # <<>>
  /\ Last(cmds) \in BarrierCmds

LastOp == Last(Last(transact.recorded))

\* While a detail is open, an image barrier c whose two sides are listed is
\* recorded, and each listed side of a recorded barrier carries the table's
\* access mask, stage and layout.
ImgBarrierAsTable(c) ==
  LET w == _record_cmd(World(transact, dev, queue, ncall), c, tx)
      op == Last(Last(w.recorded))
      src == <<c.src_usage, c.src_dev_access>>
      dst == <<c.dst_usage, c.dst_dev_access>>
  IN /\ ImgSideListed("src", src[1], src[2])
          /\ ImgSideListed("dst", dst[1], dst[2]) => w.ok
     /\ w.ok =>
          /\ op.ty = "img_barrier"
          /\ src \in DOMAIN ImgBarrierTable["src"] =>
               <<op.srcAccessMask, op.src_stage, op.oldLayout>>
                 = ImgBarrierTable["src"][src]
          /\ dst \in DOMAIN ImgBarrierTable["dst"] =>
               <<op.dstAccessMask, op.dst_stage, op.newLayout>>
                 = ImgBarrierTable["dst"][dst]

\* C17: an image barrier emits, for each side whose (usage, dev-access) pair
\* the barrier table lists, the access mask, pipeline stage and image layout
\* of the table; none/none -> staging/write has the layouts undefined ->
\* transfer-dst-optimal, and staging/write -> sampled/read has the layouts
\* transfer-dst-optimal -> shader-read-only-optimal.
C17_ImageBarrierTable ==
  /\ BarrierEnabled => \A c \in ImgBarrierCmds : ImgBarrierAsTable(c)
  /\ BarrierRecorded =>
       /\ Last(cmds) = ImgBarrierCmd({}, {}, {"STAGING"}, {"WRITE"}) =>
            /\ LastOp.oldLayout = "UNDEFINED"
            /\ LastOp.newLayout = "TRANSFER_DST_OPTIMAL"
       /\ Last(cmds) = ImgBarrierCmd({"STAGING"}, {"WRITE"},
                                     {"SAMPLED"}, {"READ"}) =>
            /\ LastOp.oldLayout = "TRANSFER_DST_OPTIMAL"
            /\ LastOp.newLayout = "SHADER_READ_ONLY_OPTIMAL"

\* The barrier staging/write -> sampled/read has been recorded.
C17_Witness ==
  /\ BarrierRecorded
  /\ Last(cmds) = ImgBarrierCmd({"STAGING"}, {"WRITE"}, {"SAMPLED"}, {"READ"})
  /\ LastOp.ty = "img_barrier"
  /\ LastOp.newLayout = "SHADER_READ_ONLY_OPTIMAL"
\* What the barrier table gives for a buffer used as `usage` and accessed as
\* `dev_access`, on either side of a barrier.
BufBarrierTable ==
  [p \in {<<{"STAGING"}, {"READ"}>>, <<{"STAGING"}, {"WRITE"}>>,
          <<{"VERTEX"}, {"READ"}>>, <<{"INDEX"}, {"READ"}>>,
          <<{"UNIFORM"}, {"READ"}>>, <<{"STORAGE"}, {"READ"}>>,
          <<{"STORAGE"}, {"WRITE"}>>, <<{"STORAGE"}, {"READ", "WRITE"}>>}
     |->
     CASE p = <<{"STAGING"}, {"READ"}>> -> <<{"TRANSFER_READ"}, {"TRANSFER"}>>
       [] p = <<{"STAGING"}, {"WRITE"}>> -> <<{"TRANSFER_WRITE"}, {"TRANSFER"}>>
       [] p = <<{"VERTEX"}, {"READ"}>> ->
            <<{"VERTEX_ATTRIBUTE_READ"}, {"VERTEX_INPUT"}>>
       [] p = <<{"INDEX"}, {"READ"}>> -> <<{"INDEX_READ"}, {"VERTEX_INPUT"}>>
       [] p = <<{"UNIFORM"}, {"READ"}>> ->
            <<{"UNIFORM_READ"},
              {"VERTEX_SHADER", "FRAGMENT_SHADER", "COMPUTE_SHADER"}>>
       [] p = <<{"STORAGE"}, {"READ"}>> ->
            <<{"SHADER_READ"}, {"ALL_GRAPHICS", "COMPUTE_SHADER"}>>
       [] p = <<{"STORAGE"}, {"WRITE"}>> ->
            <<{"SHADER_WRITE"}, {"ALL_GRAPHICS", "COMPUTE_SHADER"}>>
       [] p = <<{"STORAGE"}, {"READ", "WRITE"}>> ->
            <<{"SHADER_READ", "SHADER_WRITE"},
              {"ALL_GRAPHICS", "COMPUTE_SHADER"}>>]

\* The access masks of a buffer barrier c are the table's, and c is recorded
\* when both its sides are listed.
BufBarrierAccessAsTable(c) ==
  LET w == _record_cmd(World(transact, dev, queue, ncall), c, tx)
      op == Last(Last(w.recorded))
      src == <<c.src_usage, c.src_dev_access>>
      dst == <<c.dst_usage, c.dst_dev_access>>
  IN /\ src \in DOMAIN BufBarrierTable /\ dst \in DOMAIN BufBarrierTable =>
          w.ok
     /\ w.ok =>
          /\ op.ty = "buf_barrier"
          /\ src \in DOMAIN BufBarrierTable =>
               op.srcAccessMask = BufBarrierTable[src][1]
          /\ dst \in DOMAIN BufBarrierTable =>
               op.dstAccessMask = BufBarrierTable[dst][1]

\* The stage masks of the buffer barrier that has just been recorded are the
\* table's.
BufBarrierStageAsTable ==
  LET c == Last(cmds)
      src == <<c.src_usage, c.src_dev_access>>
      dst == <<c.dst_usage, c.dst_dev_access>>
  IN /\ src \in DOMAIN BufBarrierTable =>
          LastOp.src_stage = BufBarrierTable[src][2]
     /\ dst \in DOMAIN BufBarrierTable =>
          LastOp.dst_stage = BufBarrierTable[dst][2]

\* C18: a buffer barrier emits, for each side whose (usage, dev-access) pair
\* the barrier table lists, the access mask and the pipeline-stage mask of the
\* table: storage/write gives shader-write at all-graphics | compute-shader,
\* staging/read gives transfer-read at transfer.
C18_BufferBarrierTable ==
  /\ BarrierEnabled => \A c \in BufBarrierCmds : BufBarrierAccessAsTable(c)
  /\ BarrierRecorded /\ Last(cmds) \in BufBarrierCmds =>
       BufBarrierStageAsTable

\* What does hold of buffer barriers: the access masks are the table's, and
\* the stages are bottom-of-pipe and top-of-pipe whatever the pairs.
BufBarrierAccessOnly ==
  BarrierEnabled =>
    \A c \in BufBarrierCmds :
      /\ BufBarrierAccessAsTable(c)
      /\ LET w == _record_cmd(World(transact, dev, queue, ncall), c, tx)
             op == Last(Last(w.recorded))
         IN w.ok => /\ op.src_stage = {"BOTTOM_OF_PIPE"}
                    /\ op.dst_stage = {"TOP_OF_PIPE"}
\* The pairs a barrier must not name: a read-only usage that is written, a
\* staging resource both read and written, a usage of more than one bit.
IllegalBufPair(usage, dev_access) ==
  /\ dev_access # {}
  /\ \/ usage \in {{"VERTEX"}, {"INDEX"}, {"UNIFORM"}} /\ "WRITE" \in dev_access
     \/ usage = {"STAGING"} /\ dev_access = {"READ", "WRITE"}
     \/ Cardinality(usage) > 1
IllegalImgPair(usage, dev_access) ==
  /\ dev_access # {}
  /\ \/ usage \in {{"SAMPLED"}, {"PRESENT"}} /\ "WRITE" \in dev_access
     \/ usage = {"STAGING"} /\ dev_access = {"READ", "WRITE"}
     \/ Cardinality(usage) > 1
IllegalBarrier(c) ==
  IF c.ty = "buf_barrier"
  THEN \/ IllegalBufPair(c.src_usage, c.src_dev_access)
       \/ IllegalBufPair(c.dst_usage, c.dst_dev_access)
  ELSE \/ IllegalImgPair(c.src_usage, c.src_dev_access)
       \/ IllegalImgPair(c.dst_usage, c.dst_dev_access)

\* The messages with which a barrier that cannot be made is refused.
CannotMakeBarrier ==
  {"buffer barrier must be specified with a usage",
   "buffer used for staging can't be both read and written",
   "buffer used for vertex input cannot be written",
   "buffer used for index input cannot be written",
   "buffer used for uniform cannot be written",
   "cannot make buffer barrier with a set of usage",
   "image used for staging can't be both read and written",
   "image used for sampling cannot be written",
   "image used for present cannot be written",
   "cannot make image barrier with a set of usage"}

NoneAccessMaskAndStage ==
  BarrierRecorded =>
    /\ Last(cmds).src_dev_access = L_MEMORY_ACCESS_NONE =>
         /\ LastOp.srcAccessMask = {}
         /\ LastOp.src_stage = {"BOTTOM_OF_PIPE"}
    /\ Last(cmds).dst_dev_access = L_MEMORY_ACCESS_NONE =>
         /\ LastOp.dstAccessMask = {}
         /\ LastOp.dst_stage = {"TOP_OF_PIPE"}

\* C20: a side of a barrier whose dev-access is none, whatever its usage, has
\* access mask 0 and stage bottom-of-pipe (source) or top-of-pipe
\* (destination), and an image barrier whose destination dev-access is none
\* keeps the layout: its new layout is its old layout.
C20_NoneAccess ==
  /\ NoneAccessMaskAndStage
  /\ BarrierRecorded /\ Last(cmds) \in ImgBarrierCmds
       /\ Last(cmds).dst_dev_access = L_MEMORY_ACCESS_NONE =>
         LastOp.newLayout = LastOp.oldLayout
\* The priority of memory type idx of the device for a host access pattern.
PriorOf(host_access, idx) == _get_mem_prior(host_access, mem_prop[idx + 1])

\* idx is a best choice for host_access under the memory requirement
\* memoryTypeBits: its bit is set, and no type whose bit is set has a higher
\* priority.
BestMemoryType(host_access, memoryTypeBits, idx) ==
  /\ idx \in memoryTypeBits
  /\ \A j \in memoryTypeBits :
       PriorOf(host_access, j) <= PriorOf(host_access, idx)

\* The lists of the Context: each holds every memory-type index once, with
\* the priorities going down.
MemoryListsSorted ==
  \A a \in MemoryAccesses :
    LET l == ctxt.mem_ty_idxs_by_host_access[a]
    IN /\ Len(l) = Len(mem_prop)
       /\ {l[k] : k \in 1..Len(l)} = 0..(Len(mem_prop) - 1)
       /\ \A k \in 1..(Len(l) - 1) : PriorOf(a, l[k]) >= PriorOf(a, l[k + 1])

\* What create_buf and create_img do for a host access pattern and a memory
\* requirement: they allocate on a best type, or fail when no bit is set.
MemoryTypeChosen(a, memoryTypeBits) ==
  LET b == _create_buf(ctxt, rsc_dev,
                       [host_access |-> a, usage |-> {"STORAGE"}, size |-> 1],
                       memoryTypeBits)
      i == _create_img(ctxt, rsc_dev, CHOOSE c \in MemImgCfgs : c.host_access = a,
                       memoryTypeBits)
  IN IF memoryTypeBits = {}
     THEN /\ ~b.ok /\ b.err = "host access pattern cannot be satisfied"
          /\ ~i.ok /\ i.err = "host access pattern cannot be satisfied"
     ELSE /\ b.ok
          /\ BestMemoryType(a, memoryTypeBits,
                            b.dev[b.ret.devmem].memoryTypeIndex)
          /\ i.ok
          /\ BestMemoryType(a, memoryTypeBits,
                            i.dev[i.ret.devmem].memoryTypeIndex)

\* C21: for every host access pattern and every memory-requirement mask,
\* create_buf and create_img allocate on the memory type of the highest
\* priority for the pattern among the types whose bit is set in the mask
\* (each list of the Context being a permutation of the memory-type indices
\* with the priorities going down), and fail with "host access pattern cannot
\* be satisfied" when no bit is set.
C21_MemoryTypeChoice ==
  ctxt.live =>
    /\ MemoryListsSorted
    /\ \A a \in MemoryAccesses :
         \A memoryTypeBits \in SUBSET (0..(Len(mem_prop) - 1)) :
           MemoryTypeChosen(a, memoryTypeBits)

\* A buffer lies on the second memory type because it is the better one for
\* its host access pattern, though the first type was allowed too.
C21_Witness ==
  /\ bufs # <<>>
  /\ bufs[1].buf # VK_NULL_HANDLE
  /\ rsc_dev[bufs[1].devmem].memoryTypeIndex = 1
  /\ Len(mem_prop) = 2
  /\ PriorOf(bufs[1].buf_cfg.host_access, 1)
       > PriorOf(bufs[1].buf_cfg.host_access, 0)
\* The families of the device (by index, from 0) whose capability flags
\* include the required bits of a submit class.
Satisfying(submit_ty) ==
  {i \in 0..(Len(qfam_props) - 1) :
     req_queue_flags_of(submit_ty) \subseteq qfam_props[i + 1]}

NBits(i) == count_set_bits(qfam_props[i + 1])

\* What the search from the highest popcount down finds for a class: the
\* first family, in enumeration order, of the highest bucket that holds a
\* satisfying family; nothing only if no family satisfies.
SearchResult(submit_ty, qfam_idx) ==
  IF Satisfying(submit_ty) = {}
  THEN qfam_idx = VK_QUEUE_FAMILY_IGNORED
  ELSE /\ qfam_idx \in Satisfying(submit_ty)
       /\ \A j \in Satisfying(submit_ty) :
            \/ NBits(j) < NBits(qfam_idx)
            \/ NBits(j) = NBits(qfam_idx) /\ qfam_idx <= j

C22_CreateStep ==
  ~ctxt.live /\ ctxt'.live =>
    \A submit_ty \in {L_SUBMIT_TYPE_GRAPHICS, L_SUBMIT_TYPE_COMPUTE} :
      SearchResult(submit_ty, ctxt'.queue_allocs[submit_ty])

\* C22: when create_ctxt resolves the queue family of a submit class it takes,
\* among the families with all the required bits, one of the largest number
\* of capability bits, the first of them in enumeration order; the class is
\* left unsupported only if no family has the required bits.
C22_HighestPopcountFirst == [][C22_CreateStep]_vars

\* A context on a device whose second family has more capability bits than
\* its first: both classes got the second.
C22_Witness ==
  /\ ctxt.live
  /\ qfam_props = <<{VK_QUEUE_COMPUTE_BIT},
                    {VK_QUEUE_GRAPHICS_BIT, VK_QUEUE_COMPUTE_BIT}>>
  /\ ctxt.queue_allocs[L_SUBMIT_TYPE_COMPUTE] = 1
  /\ ctxt.queue_allocs[L_SUBMIT_TYPE_GRAPHICS] = 1

\* C23 as stated: the family stored for a class has the fewest capability
\* bits among the families that satisfy the class.
C23_AsStated ==
  ctxt.live =>
    \A submit_ty \in {L_SUBMIT_TYPE_GRAPHICS, L_SUBMIT_TYPE_COMPUTE} :
      Satisfying(submit_ty) # {} =>
        /\ ctxt.queue_allocs[submit_ty] \in Satisfying(submit_ty)
        /\ \A j \in Satisfying(submit_ty) :
             NBits(ctxt.queue_allocs[submit_ty]) <= NBits(j)

\* C23 (amended): the family stored for a class has the most capability bits
\* among the families that satisfy the class, so that a device with a
\* compute-only family and a graphics+compute+transfer family gives the
\* compute class the graphics+compute+transfer family.
C23_MostBits ==
  ctxt.live =>
    /\ \A submit_ty \in {L_SUBMIT_TYPE_GRAPHICS, L_SUBMIT_TYPE_COMPUTE} :
         Satisfying(submit_ty) # {} =>
           /\ ctxt.queue_allocs[submit_ty] \in Satisfying(submit_ty)
           /\ \A j \in Satisfying(submit_ty) :
                NBits(ctxt.queue_allocs[submit_ty]) >= NBits(j)
    /\ qfam_props = <<{VK_QUEUE_COMPUTE_BIT}, QueueFlagBits>> =>
         ctxt.queue_allocs[L_SUBMIT_TYPE_COMPUTE] = 1

\* A context on a device with a compute-only family and a
\* graphics+compute+transfer family.
C23_Witness ==
  /\ ctxt.live
  /\ qfam_props = <<{VK_QUEUE_COMPUTE_BIT}, QueueFlagBits>>
  /\ ctxt.queue_allocs[L_SUBMIT_TYPE_COMPUTE] = 1
\* The underlying usage flags of one buffer usage.
FlagsOfBufferUsage(u) ==
  CASE u = "STAGING" -> {"TRANSFER_SRC", "TRANSFER_DST"}
    [] u = "UNIFORM" -> {"UNIFORM_BUFFER", "TRANSFER_DST"}
    [] u = "STORAGE" -> {"STORAGE_BUFFER", "TRANSFER_SRC", "TRANSFER_DST"}
    [] u = "VERTEX" -> {"VERTEX_BUFFER", "TRANSFER_DST"}
    [] u = "INDEX" -> {"INDEX_BUFFER", "TRANSFER_DST"}

\* C24: the usage flags of the buffer create_buf creates are the union of the
\* flag sets of the usages of its configuration.
C24_UsageUnion ==
  \A i \in 1..Len(bufs) :
    bufs[i].buf # VK_NULL_HANDLE =>
      rsc_dev[bufs[i].buf].usage
        = UNION {FlagsOfBufferUsage(u) : u \in bufs[i].buf_cfg.usage}

\* What does hold: the flags are those of the last usage, in the order
\* staging, uniform, storage, vertex, index, among those that overwrite
\* (storage, vertex, index), and the union when none of these is asked for.
UsageOfLastOverwrite ==
  \A i \in 1..Len(bufs) :
    bufs[i].buf # VK_NULL_HANDLE =>
      LET usage == bufs[i].buf_cfg.usage
          flags == rsc_dev[bufs[i].buf].usage
      IN IF "INDEX" \in usage THEN flags = FlagsOfBufferUsage("INDEX")
         ELSE IF "VERTEX" \in usage THEN flags = FlagsOfBufferUsage("VERTEX")
         ELSE IF "STORAGE" \in usage THEN flags = FlagsOfBufferUsage("STORAGE")
         ELSE flags = UNION {FlagsOfBufferUsage(u) : u \in usage}
\* The component width a pixel format asks for.
BitsOf(fmt) ==
  IF fmt.is_single THEN 32
  ELSE IF fmt.int_exp2 = 1 THEN 8 ELSE IF fmt.int_exp2 = 2 THEN 16 ELSE 32

\* A VkFormat is what the pixel format asks for: as many components, their
\* width, a float when single-precision is set and else an integer type of
\* the signedness asked for.
FormatAsAsked(fmt, vkfmt) ==
  /\ vkfmt.ncomp = fmt.ncomp
  /\ vkfmt.bits = BitsOf(fmt)
  /\ IF fmt.is_single THEN vkfmt.ty = "SFLOAT"
     ELSE IF fmt.is_signed THEN vkfmt.ty \in {"SNORM", "SINT"}
     ELSE vkfmt.ty \in {"UNORM", "UINT"}

\* C25: the format of an image created from a pixel-format descriptor with
\* int_exp2 in 1..3 and half-float false has the descriptor's component
\* count, the width int_exp2 selects (32-bit float when single-float is set)
\* and the signedness of the signed flag; a descriptor with half-float set or
\* outside the table makes no image.
C25_FormatTable ==
  \A i \in 1..Len(imgs) :
    imgs[i].img # VK_NULL_HANDLE =>
      LET fmt == imgs[i].img_cfg.fmt
      IN /\ ~fmt.is_half
         /\ fmt.is_single \/ fmt.int_exp2 \in 1..3
         /\ FormatAsAsked(fmt, rsc_dev[imgs[i].img].format)

\* What does hold: 8-bit and single-float formats are as asked, half-float and
\* int_exp2 = 0 are refused, and a 16-bit format always has two components, a
\* 32-bit integer format always three.
FormatOfInnerSwitch ==
  /\ \A i \in 1..Len(imgs) :
       imgs[i].img # VK_NULL_HANDLE =>
         LET fmt == imgs[i].img_cfg.fmt
             vkfmt == rsc_dev[imgs[i].img].format
         IN /\ ~fmt.is_half
            /\ fmt.is_single \/ fmt.int_exp2 \in 1..3
            /\ IF fmt.is_single \/ fmt.int_exp2 = 1
               THEN FormatAsAsked(fmt, vkfmt)
               ELSE FormatAsAsked([fmt EXCEPT !.ncomp = fmt.int_exp2], vkfmt)
  /\ \A fmt \in PixelFormats :
       /\ fmt.is_half =>
            _make_img_fmt(fmt).err = "half-precision texture not supported"
       /\ ~fmt.is_half /\ ~fmt.is_single /\ fmt.int_exp2 = 0 =>
            _make_img_fmt(fmt).err = "unrecognized pixel format"

(***************************************************************************)
(* Binding resources to a pool.                                            *)
(***************************************************************************)
BufferResourceTypes == {"UNIFORM_BUFFER", "STORAGE_BUFFER"}
ImageResourceTypes == {"SAMPLED_IMAGE", "STORAGE_IMAGE"}

BufferViews == {[buf |-> bufs[b].buf] : b \in 1..Len(bufs)}
ImageViews == {[img_view |-> imgs[i].img_view] : i \in 1..Len(imgs)}

Rejected(r, msg) == ~r.ok /\ r.err = msg /\ r.dev = rsc_dev

\* Binding to a pool without descriptor storage fails, whatever is bound.
EmptyPoolRejected(rsc_pool) ==
  /\ \A idx \in 0..MaxRscTys, v \in BufferViews, rsc_ty \in PastTheEnd :
       Rejected(bind_pool_rsc_BufferView(rsc_dev, rsc_pool, rsc_ty, idx, v),
                "cannot bind to empty resource pool")
  /\ \A idx \in 0..MaxRscTys, v \in ImageViews, rsc_ty \in PastTheEnd :
       Rejected(bind_pool_rsc_ImageView(rsc_dev, rsc_pool, rsc_ty, idx, v),
                "cannot bind to empty resource pool")

\* Binding a view of the wrong kind to an index of the Task is rejected.
MismatchRejected(rsc_pool) ==
  LET rsc_tys == tasks[rsc_pool.task].rsc_tys
  IN \A idx \in 0..(Len(rsc_tys) - 1) :
       /\ rsc_tys[idx + 1] \in ImageResourceTypes =>
            \A v \in BufferViews :
              Rejected(bind_pool_rsc_BufferView(rsc_dev, rsc_pool,
                                                rsc_tys[idx + 1], idx, v),
                       "unexpected buffer resource type")
       /\ rsc_tys[idx + 1] \in BufferResourceTypes =>
            \A v \in ImageViews :
              Rejected(bind_pool_rsc_ImageView(rsc_dev, rsc_pool,
                                               rsc_tys[idx + 1], idx, v),
                       "unexpected image resource type")

\* What a descriptor set holds at the indices of its Task: nothing, or a
\* descriptor of the index's type with a view of the index's kind.
DescriptorsMatch(rsc_pool) ==
  LET rsc_tys == tasks[rsc_pool.task].rsc_tys
      writes == rsc_dev[rsc_pool.desc_set].writes
  IN \A idx \in 0..(Len(rsc_tys) - 1) :
       \/ writes[idx] = NoDescriptor
       \/ /\ writes[idx].descriptorType = DescriptorTypeOf(rsc_tys[idx + 1])
          /\ rsc_dev[writes[idx].view].ty =
               IF rsc_tys[idx + 1] \in BufferResourceTypes
               THEN "buffer" ELSE "image_view"

\* C26: binding a buffer view to an index whose resource type in the Task is
\* sampled-image or storage-image, and binding an image view to an index
\* whose type is uniform-buffer or storage-buffer, is rejected and writes no
\* descriptor; binding to a pool with no descriptor storage fails too.
C26_BindRejected ==
  \A p \in 1..Len(rsc_pools) :
    IF rsc_pools[p].desc_pool = VK_NULL_HANDLE
    THEN EmptyPoolRejected(rsc_pools[p])
    ELSE MismatchRejected(rsc_pools[p]) /\ DescriptorsMatch(rsc_pools[p])

\* A bind of the wrong kind was just rejected on a pool that holds a
\* descriptor written by an earlier bind of the right kind.
C26_Witness ==
  /\ err \in {"unexpected buffer resource type",
              "unexpected image resource type"}
  /\ \E p \in 1..Len(rsc_pools) :
       /\ rsc_pools[p].desc_pool # VK_NULL_HANDLE
       /\ \E idx \in 0..(Len(tasks[rsc_pools[p].task].rsc_tys) - 1) :
            rsc_dev[rsc_pools[p].desc_set].writes[idx] # NoDescriptor

(***************************************************************************)
(* The descriptor-pool sizes of a Task.                                    *)
(***************************************************************************)
DescriptorTypesIn(rsc_tys) ==
  {DescriptorTypeOf(rsc_tys[i]) : i \in 1..Len(rsc_tys)}

NBindings(rsc_tys, t) ==
  Cardinality({i \in 1..Len(rsc_tys) : DescriptorTypeOf(rsc_tys[i]) = t})

\* One entry for each descriptor type of the list, counting its bindings.
Bucketed(rsc_tys, sizes) ==
  /\ Len(sizes) = Cardinality(DescriptorTypesIn(rsc_tys))
  /\ \A t \in DescriptorTypesIn(rsc_tys) :
       \E k \in 1..Len(sizes) :
         sizes[k].type = t /\ sizes[k].descriptorCount = NBindings(rsc_tys, t)

LiveTasks == {t \in 1..Len(tasks) : tasks[t].pipe # VK_NULL_HANDLE}

\* C29: the descriptor-pool size vector a Task stores has exactly one entry
\* for each descriptor type that occurs in its resource-type list, with the
\* number of bindings of that type as its count (the counts sum to the
\* number of resources); an empty list gives an empty vector.
C29_PoolSizesBucketed ==
  \A t \in LiveTasks : Bucketed(tasks[t].rsc_tys, tasks[t].desc_pool_sizes)

\* What the stored vector is: every round of the loop over the resources
\* appends the buckets as they stand, so the buckets of the whole list are
\* its last entries and the earlier rounds' entries come before them.
PoolSizesEndWithBuckets ==
  \A t \in LiveTasks :
    LET sizes == tasks[t].desc_pool_sizes
        n == Cardinality(DescriptorTypesIn(tasks[t].rsc_tys))
    IN /\ Len(sizes) >= n
       /\ Bucketed(tasks[t].rsc_tys, SubSeq(sizes, Len(sizes) - n + 1, Len(sizes)))
       /\ Len(tasks[t].rsc_tys) > 1 => Len(sizes) > n

(***************************************************************************)
(* Destroying what is destroyed.                                           *)
(***************************************************************************)
\* C27: destroying a buffer, image, task, render pass, resource pool,
\* command drain, timestamp, transaction or context that is already
\* destroyed does nothing: whatever was created and destroyed, in any order
\* and any number of times, the device has released each of its objects at
\* most once.
ReleasedAtMostOnce ==
  /\ \A h \in 1..Len(rsc_dev) : rsc_dev[h].destroyed <= 1
  /\ \A h \in 1..Len(dev) : dev[h].pool <= 1 /\ dev[h].sema <= 1

\* A step leaves every destroyed object destroyed.  A destroyed Transaction
\* stays as it is except when create_transact makes it anew.
DestroyedStays ==
  /\ \A i \in 1..Len(bufs) :
       bufs[i].buf = VK_NULL_HANDLE => bufs'[i] = NullBuffer
  /\ \A i \in 1..Len(imgs) :
       imgs[i].img = VK_NULL_HANDLE => imgs'[i] = NullImage
  /\ \A i \in 1..Len(tasks) :
       tasks[i].pipe = VK_NULL_HANDLE => tasks'[i] = NullTask
  /\ \A i \in 1..Len(passes) :
       passes[i].pass = VK_NULL_HANDLE => passes'[i] = NullRenderPass
  /\ \A i \in 1..Len(rsc_pools) :
       rsc_pools[i].desc_pool = VK_NULL_HANDLE => rsc_pools'[i] = rsc_pools[i]
  /\ \A i \in 1..Len(timestamps) :
       timestamps[i].query_pool = VK_NULL_HANDLE =>
         timestamps'[i] = NullTimestamp
  /\ cmd_drain.fence = VK_NULL_HANDLE => cmd_drain' = cmd_drain
  /\ ~tx.valid /\ pc = "idle" /\ pc' = "idle" => tx' = tx
  /\ ~ctxt.live => ctxt' = NoContext

C27_DoubleDestroyNoOp ==
  []ReleasedAtMostOnce /\ [][DestroyedStays]_vars

\* Everything was made and destroyed, the context last: every handle is
\* null and the device has released each object exactly once, so that every
\* destroy from here on is one of a destroyed object.
C27_Witness ==
  /\ pc = "idle"
  /\ ~ctxt.live
  /\ Len(bufs) = 1 /\ bufs[1] = NullBuffer
  /\ Len(imgs) = 1 /\ imgs[1] = NullImage
  /\ Len(tasks) = 1 /\ tasks[1] = NullTask
  /\ Len(passes) = 1 /\ passes[1] = NullRenderPass
  /\ Len(rsc_pools) = 1 /\ rsc_pools[1] = NullResourcePool
  /\ Len(timestamps) = 1 /\ timestamps[1] = NullTimestamp
  /\ cmd_drain.fence = VK_NULL_HANDLE
  /\ ntransact = 1 /\ ~tx.valid
  /\ ncall = 1
  /\ \A h \in 1..Len(rsc_dev) :
       rsc_dev[h].ty # "desc_set" => rsc_dev[h].destroyed = 1
  /\ Len(dev) > 1
  /\ \A h \in 1..Len(dev) : dev[h].pool = 1 /\ dev[h].sema = 1

(***************************************************************************)
(* Initializing the module again.                                          *)
(***************************************************************************)
\* With an instance, initialize only logs its warning, however far the
\* driver would have let it get.
RedundantInitializeIgnored ==
  vk.inst # VK_NULL_HANDLE =>
    \A o \in InitializeOutcomes, validation \in BOOLEAN,
       nphysdev \in 0..MaxPhysDevs :
      LET r == initialize_of(vk, o, validation, nphysdev)
      IN /\ r.ok
         /\ r.vk = [vk EXCEPT
                      !.warn = "ignored redundant vulkan module initialization"]

\* No physical device is listed or described twice.
NoDuplicates ==
  /\ \A i, j \in 1..Len(vk.physdev_descs) :
       vk.physdev_descs[i] = vk.physdev_descs[j] => i = j
  /\ \A i, j \in 1..Len(vk.physdevs) :
       vk.physdevs[i] = vk.physdevs[j] /\ vk.physdevs[i] # VK_NULL_HANDLE
         => i = j
  /\ Len(vk.physdev_descs) <= Len(vk.physdevs)

\* A step of a module that has its instance keeps the instance and the two
\* lists; the step that makes a context initializes the module if it had no
\* instance and leaves the module alone, warning included, if it had one.
InstanceStep ==
  /\ vk.inst # VK_NULL_HANDLE =>
       /\ vk'.inst = vk.inst
       /\ vk'.physdevs = vk.physdevs
       /\ vk'.physdev_descs = vk.physdev_descs
  /\ ~ctxt.live /\ ctxt'.live =>
       IF vk.inst # VK_NULL_HANDLE THEN vk' = vk
       ELSE vk' # vk /\ vk'.inst # VK_NULL_HANDLE

\* C28: initialize called while the instance exists returns after a warning
\* without changing the instance handle, the list of physical devices or
\* the list of their descriptions, which gain no duplicate entries however
\* often it is called; create_ctxt initializes the module only when the
\* instance does not exist yet.
C28_InitializeOnce ==
  [](RedundantInitializeIgnored /\ NoDuplicates) /\ [][InstanceStep]_vars

\* initialize was called on a module that had its instance and its devices,
\* and a context was made afterwards.
C28_Witness ==
  /\ vk.warn = "ignored redundant vulkan module initialization"
  /\ Len(vk.physdev_descs) = MaxPhysDevs
  /\ ctxt.live

(***************************************************************************)
(* What copy_host2buf leaves in the buffer.                                *)
(***************************************************************************)
MappableBuffers ==
  {b \in 1..Len(bufs) :
     bufs[b].buf # VK_NULL_HANDLE /\ CanMap(mem_prop, rsc_dev, bufs[b])}

CopyOf(b, src, size) ==
  copy_host2buf_of(mem_prop, rsc_dev, vk, src, bufs[b], size)

\* C30: copy_host2buf(src, dst, size) with 0 < size <= dst.size leaves the
\* first size bytes of the mapped buffer equal to the size bytes at src;
\* with size 0 it warns and changes nothing, and with size > dst.size it
\* fails without writing.
C30_CopiesSrc ==
  \A b \in MappableBuffers :
    \A size \in 0..(MaxCopySize + 1) :
      \A src \in HostBytes(size) :
        LET r == CopyOf(b, src, size)
        IN IF size = 0
           THEN /\ r.ok /\ r.dev = rsc_dev
                /\ r.vk.warn = "zero-sized copy is ignored"
           ELSE IF size > bufs[b].buf_cfg.size
           THEN ~r.ok /\ r.dev = rsc_dev
           ELSE /\ r.ok
                /\ \A k \in 1..size : r.dev[bufs[b].devmem].data[k] = src[k]

\* What does hold: the size checks are as stated, and a copy that passes
\* them leaves the buffer as it was, whatever src holds.
CopyLeavesBuffer ==
  \A b \in MappableBuffers :
    \A size \in 0..(MaxCopySize + 1) :
      \A src \in HostBytes(size) :
        LET r == CopyOf(b, src, size)
        IN /\ r.dev = rsc_dev
           /\ r.ok = (size <= bufs[b].buf_cfg.size)
           /\ size = 0 => r.vk.warn = "zero-sized copy is ignored"
           /\ size > bufs[b].buf_cfg.size =>
                r.err = "dst buffser size is too small"

(***************************************************************************)
(* Commands of an unknown tag.                                             *)
(***************************************************************************)
\* The 14 command variants _record_cmd has a case for.
KnownCommandTypes ==
  {"set_submit_ty", "inline_transact", "copy_buf2img", "copy_img2buf",
   "copy_buf", "copy_img", "dispatch", "draw", "draw_indexed",
   "write_timestamp", "buf_barrier", "img_barrier", "begin_pass", "end_pass"}

\* C31: translating a command whose tag is not one of the 14 known variants
\* fails: no recording goes on past such a command, so the commands a
\* recording has taken so far never include one.
C31_UnknownTagFails ==
  \A i \in 1..Len(cmds) : cmds[i].ty \in KnownCommandTypes

\* What the default branch does: the command is taken, nothing is recorded,
\* begun, ended or submitted for it, and the call goes on.
UnknownCommandIgnored ==
  [][(pc \in {"submit_cmds", "create_transact"} /\ Len(cmds') = Len(cmds) + 1
        /\ Last(cmds').ty \notin KnownCommandTypes)
       => /\ transact' = transact /\ dev' = dev /\ queue' = queue
          /\ pc' = pc /\ err' = err]_vars

\* An unknown command was skipped and the rest of the call was submitted.
UnknownSkippedAndSubmitted ==
  /\ pc = "submit_cmds"
  /\ \E i \in 1..Len(cmds) : cmds[i].ty \notin KnownCommandTypes
  /\ queue # <<>>

(***************************************************************************)
(* The commands of a recording, read back from its command buffers.        *)
(***************************************************************************)
\* What the command buffers hold, detail after detail, each in recording
\* order: pairs of the detail's index and the recorded command.
RECURSIVE ReadBackFrom(_, _)
ReadBackFrom(t, k) ==
  IF k > Len(t.recorded) THEN <<>>
  ELSE [j \in 1..Len(t.recorded[k]) |-> <<k, t.recorded[k][j]>>]
         \o ReadBackFrom(t, k + 1)

ReadBack(t) == ReadBackFrom(t, 1)

\* A recorded barrier carries masks and layouts where the command carries
\* usages: the two are compared by their tag.
Stamp(op) ==
  IF op.ty \in {"buf_barrier", "img_barrier"} THEN [ty |-> op.ty] ELSE op

\* What a command of the input is recorded as: nothing for a
\* set-submit-type, one execute-secondary for each submit detail of the
\* inlined Transaction, the command itself otherwise.
RecordedAs(cmd) ==
  IF cmd.ty = "set_submit_ty" THEN <<>>
  ELSE IF cmd.ty = "inline_transact"
  THEN [i \in 1..Len(tx.submit_details) |->
          [ty |-> "execute_commands", cmdbuf |-> tx.submit_details[i].cmdbuf]]
  ELSE <<Stamp(cmd)>>

RECURSIVE RecordedAsAll(_, _)
RecordedAsAll(cs, n) ==
  IF n = 0 THEN <<>> ELSE RecordedAsAll(cs, n - 1) \o RecordedAs(cs[n])

\* The details whose command buffers hold what command i was recorded as.
DetailsOfCmd(i) ==
  LET from == Len(RecordedAsAll(cmds, i - 1))
      to == Len(RecordedAsAll(cmds, i))
      back == ReadBack(transact)
  IN {back[p][1] : p \in (from + 1)..to}

OrderKept(cs) ==
  LET back == ReadBack(transact)
  IN /\ Len(transact.recorded) = Len(transact.submit_details)
     /\ [p \in 1..Len(back) |-> Stamp(back[p][2])] = RecordedAsAll(cs, Len(cs))

\* The commands of known tag the recording has taken.
KnownCmds == SelectSeq(cmds, LAMBDA c : c.ty \in KnownCommandTypes)

\* C32, as stated: every translated command other than set-submit-type is
\* in exactly one detail's command buffer, and the command buffers read in
\* list order give the input commands back in their order.
C32_AsStated ==
  pc \in {"submit_cmds", "create_transact"} /\ KnownCmds = cmds =>
    /\ OrderKept(cmds)
    /\ \A i \in 1..Len(cmds) :
         cmds[i].ty # "set_submit_ty"
           /\ (cmds[i].ty = "inline_transact" => tx.submit_details # <<>>)
           => Cardinality(DetailsOfCmd(i)) = 1

\* C32: every translated command of a known tag other than set-submit-type
\* and inline-transaction is recorded into exactly one detail's command
\* buffer; an inline-transaction is recorded as one execute-secondary for
\* each submit detail of the inlined Transaction, in their order, each into
\* one detail's command buffer (not always the same one); reading the
\* submit details in list order, each command buffer in recording order,
\* gives these back in the order of the input: nothing is dropped,
\* duplicated or reordered.
C32_OrderKept ==
  pc \in {"submit_cmds", "create_transact"} =>
    /\ OrderKept(KnownCmds)
    /\ KnownCmds = cmds =>
         \A i \in 1..Len(cmds) :
           cmds[i].ty \notin {"set_submit_ty", "inline_transact"}
             => Cardinality(DetailsOfCmd(i)) = 1

\* A dispatch, a two-class Transaction inlined and a dispatch: three details,
\* the execute-secondaries in two of them.
C32_Witness ==
  /\ pc = "submit_cmds"
  /\ Len(cmds) = 3
  /\ cmds[1].ty = "dispatch"
  /\ cmds[2].ty = "inline_transact"
  /\ cmds[3].ty = "dispatch"
  /\ Len(tx.submit_details) = 2
  /\ Len(transact.submit_details) = 3
  /\ Cardinality(DetailsOfCmd(2)) = 2
  /\ Len(ReadBack(transact)) = 4

(***************************************************************************)
(* The life of a command buffer: begin, record, end, submit.               *)
(***************************************************************************)
\* Where in the log of t the driver call kind was made on command buffer h.
CallsOn(t, kind, h) == {p \in 1..Len(t.log) : t.log[p] = <<kind, h>>}

\* The vkCmd* calls that recorded into h.
RecordsInto(t, h) == {m \in 1..Len(t.marks) : t.marks[m][1] = h}

\* The command buffer of detail k of the recording t has been begun once,
\* right after its detail was pushed; it has been ended at most once, after
\* that; it has been submitted at most once, after its end and only in a
\* primary recording; every command recorded into it came after its begin
\* and before its end; and it is ended (and, primary, submitted) exactly if
\* a later detail has been opened.
FollowsProtocol(t, k) ==
  LET h == t.submit_details[k].cmdbuf
      push == CallsOn(t, "push", h)
      begin == CallsOn(t, "begin", h)
      end == CallsOn(t, "end", h)
      submit == CallsOn(t, "submit", h)
      primary == t.level = VK_COMMAND_BUFFER_LEVEL_PRIMARY
  IN /\ Cardinality(push) = 1
     /\ begin = {p + 1 : p \in push}
     /\ Cardinality(end) <= 1
     /\ \A e \in end : \A b \in begin : e > b
     /\ Cardinality(submit) <= 1
     /\ \A s \in submit : primary /\ \E e \in end : s > e
     /\ \A m \in RecordsInto(t, h) :
          /\ \A b \in begin : t.marks[m][2] >= b
          /\ \A e \in end : t.marks[m][2] < e
     /\ Cardinality(RecordsInto(t, h)) = Len(t.recorded[k])
     /\ (end # {}) = (k < Len(t.submit_details))
     /\ (submit # {}) = (primary /\ k < Len(t.submit_details))

ProtocolKept ==
  /\ pc \in {"submit_cmds", "create_transact"} =>
       /\ \A k \in 1..Len(transact.submit_details) :
            /\ FollowsProtocol(transact, k)
            /\ dev[transact.submit_details[k].cmdbuf].cmdbuf
                 = IF k = Len(transact.submit_details) THEN "recording"
                   ELSE IF transact.level = VK_COMMAND_BUFFER_LEVEL_PRIMARY
                   THEN "pending"
                   ELSE "executable"
       /\ \A p \in 1..Len(transact.log) :
            \E k \in 1..Len(transact.submit_details) :
              transact.log[p][2] = transact.submit_details[k].cmdbuf
       /\ \A m \in 1..Len(transact.marks) :
            \E k \in 1..Len(transact.submit_details) :
              transact.marks[m][1] = transact.submit_details[k].cmdbuf
       /\ \A k \in 1..Len(transact.recorded) :
            \A j \in 1..Len(transact.recorded[k]) :
              transact.recorded[k][j].ty = "execute_commands" =>
                dev[transact.recorded[k][j].cmdbuf].cmdbuf = "executable"
  /\ tx.valid =>
       \A i \in 1..Len(tx.submit_details) :
         dev[tx.submit_details[i].cmdbuf].cmdbuf = "executable"
  /\ \A i \in 1..Len(queue) :
       /\ dev[queue[i].cmdbuf].cmdbuf = "pending"
       /\ dev[queue[i].cmdbuf].level = VK_COMMAND_BUFFER_LEVEL_PRIMARY

\* The last step of a call that took every command: the trailing command
\* buffer, still recording, is ended and (submit_cmds only) submitted.
ProtocolEnd ==
  pc \in {"submit_cmds", "create_transact"} /\ pc' = "idle" /\ err' = ""
    /\ transact.submit_details # <<>> =>
    LET h == Last(transact.submit_details).cmdbuf
    IN /\ dev[h].cmdbuf = "recording"
       /\ \A g \in 1..Len(dev) : g # h => dev'[g] = dev[g]
       /\ IF pc = "submit_cmds"
          THEN /\ dev'[h].cmdbuf = "pending"
               /\ Len(queue') = Len(queue) + 1
               /\ SubSeq(queue', 1, Len(queue)) = queue
               /\ Last(queue').cmdbuf = h
          ELSE /\ dev'[h].cmdbuf = "executable"
               /\ queue' = queue

\* C33: every command buffer of a recording is begun exactly once, when its
\* detail is pushed, and ended exactly once; no command is recorded into it
\* after its end; it is submitted (primary only) or executed as a secondary
\* only after its end.
C33_CmdbufProtocol == []ProtocolKept /\ [][ProtocolEnd]_vars

\* A primary recording with an ended and submitted command buffer and a
\* second one recording, holding executions of ended secondaries.
C33_Witness ==
  /\ pc = "submit_cmds"
  /\ Len(transact.submit_details) = 2
  /\ CallsOn(transact, "submit", transact.submit_details[1].cmdbuf) # {}
  /\ RecordsInto(transact, transact.submit_details[1].cmdbuf) # {}
  /\ RecordsInto(transact, transact.submit_details[2].cmdbuf) # {}
  /\ \E j \in 1..Len(transact.recorded[2]) :
       transact.recorded[2][j].ty = "execute_commands"

(***************************************************************************)
(* A submit_cmds call that fails on one of its commands.                   *)
(***************************************************************************)
\* The step in which submit_cmds fails: an assertion of _record_cmd throws.
SubmitFails == pc = "submit_cmds" /\ pc' = "idle" /\ err' # ""

\* The batches the queue holds from submit_cmds call number call.
SubmittedBy(q, call) == {i \in 1..Len(q) : q[i].call = call}

\* C34: when submit_cmds fails on one of its commands, no command buffer
\* recorded by that call has been submitted to a queue, and the drain's
\* submit-details list and its fence are as they were before the call.
C34_FailedSubmitLeavesNothing ==
  [][SubmitFails =>
       /\ SubmittedBy(queue', ncall) = {}
       /\ cmd_drain' = cmd_drain
       /\ fence' = fence]_vars

\* What does hold: the failing call leaves the drain and its fence alone,
\* and every class change it made before the failing command has put a
\* command buffer on a queue, with no fence, that the drain does not list.
FailedSubmitKeepsDrain ==
  [][SubmitFails =>
       /\ cmd_drain' = cmd_drain
       /\ fence' = fence
       /\ \A i \in SubmittedBy(queue', ncall) :
            /\ queue'[i].fence = VK_NULL_HANDLE
            /\ \A k \in 1..Len(cmd_drain'.submit_details) :
                 cmd_drain'.submit_details[k].cmdbuf # queue'[i].cmdbuf
       /\ (cmds # <<>> /\ err' # "VkException") =>
            Cardinality(SubmittedBy(queue', ncall))
              >= Len(transact.submit_details) - 1]_vars

\* A failed call has left a command buffer on the queue.
FailedSubmitInFlight ==
  /\ pc = "idle"
  /\ err = "buffer copy size mismatched"
  /\ SubmittedBy(queue, ncall) # {}
  /\ cmd_drain.submit_details = <<>>

(***************************************************************************)
(* Tearing down what the device still uses.                                *)
(***************************************************************************)
\* The batches the device has not finished.
PendingBatches ==
  {i \in 1..Len(queue) : ~lost /\ queue[i].st \in {"queued", "running"}}

\* The command pool and the semaphores batch i uses exist.
BatchObjectsLive(d, i) ==
  /\ d[queue[i].cmdbuf].pool = 0
  /\ d[queue[i].signal_sema].sema = 0
  /\ queue[i].wait_sema # VK_NULL_HANDLE => d[queue[i].wait_sema].sema = 0

\* C35: no command pool or semaphore is destroyed while a submission that
\* uses it is pending on the device, whatever the order of submit_cmds,
\* wait_cmd_drain, destroy_cmd_drain and the device's steps.
C35_NoTeardownWhilePending ==
  \A i \in PendingBatches : BatchObjectsLive(dev, i)

\* What does hold: the objects of a pending batch are destroyed only by
\* destroy_cmd_drain, which waits for nothing, or by a wait_cmd_drain whose
\* fence was signalled by an earlier submit_cmds call than the batch's.
TeardownWhilePendingOnlyBy ==
  [][\A i \in PendingBatches :
       BatchObjectsLive(dev, i) /\ ~BatchObjectsLive(dev', i) =>
         \/ pc = "idle" /\ cmd_drain'.fence = VK_NULL_HANDLE
         \/ pc = "wait_cmd_drain" /\ fence.by < queue[i].call]_vars

\* destroy_cmd_drain right after submit_cmds, the batch not yet started.
DestroyedWhilePending ==
  /\ pc = "idle"
  /\ cmd_drain.fence = VK_NULL_HANDLE
  /\ ncall = 1
  /\ \E i \in PendingBatches : ~BatchObjectsLive(dev, i)

(***************************************************************************)
(* Render passes and the end of a command buffer.                          *)
(***************************************************************************)
\* The render pass begun last in the command buffer content ops has not
\* been ended.
RECURSIVE PassOpenAfter(_, _)
PassOpenAfter(ops, n) ==
  IF n = 0 THEN FALSE
  ELSE IF ops[n].ty = "begin_pass" THEN TRUE
  ELSE IF ops[n].ty = "end_pass" THEN FALSE
  ELSE PassOpenAfter(ops, n - 1)

PassOpen(ops) == PassOpenAfter(ops, Len(ops))

\* The command buffers of the recording that have been ended: all but the
\* last.
EndedClosed ==
  pc = "submit_cmds" =>
    \A k \in 1..(Len(transact.recorded) - 1) : ~PassOpen(transact.recorded[k])

\* The last step of submit_cmds ends and submits the trailing one.
TrailingClosed ==
  pc = "submit_cmds" /\ pc' = "idle" /\ err' = ""
    /\ transact.recorded # <<>> => ~PassOpen(Last(transact.recorded))

\* C36: no command buffer is ended or submitted while a render pass begun
\* in it by begin-render-pass has not been ended by end-render-pass,
\* whatever sequence of commands the translator accepts.
C36_NoEndInsidePass == []EndedClosed /\ [][TrailingClosed]_vars

\* What does hold: begin-render-pass and end-render-pass are recorded into
\* graphics command buffers only, wherever _get_cmdbuf puts them.
PassCmdsInGraphics ==
  \A k \in 1..Len(transact.recorded) :
    \A j \in 1..Len(transact.recorded[k]) :
      transact.recorded[k][j].ty \in {"begin_pass", "end_pass"} =>
        transact.submit_details[k].submit_ty = L_SUBMIT_TYPE_GRAPHICS

\* begin-render-pass, dispatch, end-render-pass: the pass is begun in one
\* command buffer, which is submitted, and ended in another.
PassSplitByDispatch ==
  /\ pc = "submit_cmds"
  /\ Len(cmds) = 3
  /\ cmds[1].ty = "begin_pass" /\ cmds[2].ty = "dispatch"
  /\ cmds[3].ty = "end_pass"
  /\ Len(transact.recorded) = 3
  /\ PassOpen(transact.recorded[1])
  /\ transact.recorded[3] = <<[ty |-> "end_pass"]>>
  /\ Len(queue) = 2

(***************************************************************************)
(* The trailing command buffer.                                            *)
(***************************************************************************)
\* The last step of create_transact, and of a submit_cmds call whose list
\* is not empty: _end_cmdbuf(submit_details.back()).
EndsTrailing == create_transact_end \/ (submit_cmds_end /\ cmds # <<>>)

\* C37: whenever submit_cmds or create_transact comes to end (and submit)
\* the trailing command buffer, the submit-details list is not empty,
\* whatever command list they were given: also the empty list, for
\* create_transact, and a list of commands that are all skipped.
C37_TrailingExists == [][EndsTrailing => transact.submit_details # <<>>]_vars

\* What does hold: the list is not empty once the call has taken a command
\* of a known tag other than an inline-transaction, and submit_cmds refuses
\* the empty list.
TrailingExistsAfterCmd ==
  /\ pc \in {"submit_cmds", "create_transact"}
       /\ (\E i \in 1..Len(cmds) :
             cmds[i].ty \in KnownCommandTypes \ {"inline_transact"})
       => transact.submit_details # <<>>
  /\ pc = "idle" /\ err = "cannot submit empty command buffer"
       => queue = <<>> /\ cmd_drain.submit_details = <<>>

\* create_transact of the empty list went through: a Transaction without
\* submit details.
EmptyTransactCreated ==
  /\ pc = "idle"
  /\ tx.valid
  /\ tx.submit_details = <<>>
  /\ dev = <<>>

(***************************************************************************)
(* The class of a submit detail.                                           *)
(***************************************************************************)
ConcreteClasses == {L_SUBMIT_TYPE_GRAPHICS, L_SUBMIT_TYPE_COMPUTE}

AllConcrete(submit_details) ==
  \A i \in 1..Len(submit_details) :
    submit_details[i].submit_ty \in ConcreteClasses

\* C38: no submit detail has class any: every submit detail of a recording,
\* of a Transaction and of a Command Drain, and every batch given to a
\* queue, has class graphics or compute.
C38_NoDetailOfClassAny ==
  /\ AllConcrete(transact.submit_details)
  /\ AllConcrete(tx.submit_details)
  /\ AllConcrete(cmd_drain.submit_details)
  /\ AllConcrete(queue)

\* A set-submit-type(any) and a class-any copy were taken after a dispatch:
\* they stay in the compute detail.
C38_Witness ==
  /\ pc = "submit_cmds"
  /\ Len(cmds) = 3
  /\ cmds[1].ty = "dispatch"
  /\ cmds[2] = [ty |-> "set_submit_ty", submit_ty |-> L_SUBMIT_TYPE_ANY]
  /\ cmds[3].ty = "copy_buf2img"
  /\ Len(transact.submit_details) = 1
  /\ transact.submit_details[1].submit_ty = L_SUBMIT_TYPE_COMPUTE
  /\ Len(transact.recorded[1]) = 2

(***************************************************************************)
(* An image-barrier side of usage none whose dev-access is not none.       *)
(***************************************************************************)
\* Recording, in the open detail, the image barrier whose source side is
\* (none, dev_access) and whose destination side accesses nothing, and the
\* one with the sides swapped.
NoneUsageSrc(dev_access) ==
  _record_cmd(World(transact, dev, queue, ncall),
              ImgBarrierCmd({}, dev_access, {}, L_MEMORY_ACCESS_NONE), tx)

NoneUsageDst(dev_access) ==
  _record_cmd(World(transact, dev, queue, ncall),
              ImgBarrierCmd({}, L_MEMORY_ACCESS_NONE, {}, dev_access), tx)

\* C39: an image-barrier side of usage none and a dev-access other than
\* none is taken without failing on the source side and on the destination
\* side alike, and gives access 0 and layout undefined, at stage
\* bottom-of-pipe for the source and top-of-pipe for the destination.
C39_NoneUsageBothSides ==
  BarrierEnabled =>
    \A dev_access \in MemoryAccesses \ {L_MEMORY_ACCESS_NONE} :
      LET s == NoneUsageSrc(dev_access)
          d == NoneUsageDst(dev_access)
      IN /\ s.ok
         /\ Last(Last(s.recorded)).srcAccessMask = {}
         /\ Last(Last(s.recorded)).src_stage = {"BOTTOM_OF_PIPE"}
         /\ Last(Last(s.recorded)).oldLayout = "UNDEFINED"
         /\ d.ok
         /\ Last(Last(d.recorded)).dstAccessMask = {}
         /\ Last(Last(d.recorded)).dst_stage = {"TOP_OF_PIPE"}
         /\ Last(Last(d.recorded)).newLayout = "UNDEFINED"

\* What does hold: the source side is taken as stated; the destination side
\* fails, and the barrier is not recorded.
NoneUsageSrcOnly ==
  BarrierEnabled =>
    \A dev_access \in MemoryAccesses \ {L_MEMORY_ACCESS_NONE} :
      LET s == NoneUsageSrc(dev_access)
          d == NoneUsageDst(dev_access)
      IN /\ s.ok
         /\ Last(Last(s.recorded)).srcAccessMask = {}
         /\ Last(Last(s.recorded)).src_stage = {"BOTTOM_OF_PIPE"}
         /\ Last(Last(s.recorded)).oldLayout = "UNDEFINED"
         /\ ~d.ok
         /\ d.err = "cannot make image barrier with a set of usage"
         /\ d.recorded = transact.recorded

(***************************************************************************)
(* The memory behind a resource the host accesses.                         *)
(***************************************************************************)
HostAccesses == MemoryAccesses \ {L_MEMORY_ACCESS_NONE}

\* The masks that allow some memory type, and only types of priority 0 for
\* the host access pattern a.
ScoreZeroMasks(a) ==
  {m \in SUBSET (0..(Len(mem_prop) - 1)) :
     m # {} /\ \A j \in m : PriorOf(a, j) = 0}

CreatedFor(a, memoryTypeBits) ==
  [buf |-> _create_buf(ctxt, rsc_dev,
                       [host_access |-> a, usage |-> {"STORAGE"}, size |-> 1],
                       memoryTypeBits),
   img |-> _create_img(ctxt, rsc_dev,
                       CHOOSE c \in MemImgCfgs : c.host_access = a,
                       memoryTypeBits)]

\* C40: a buffer or an image created with host access read-only,
\* write-only or read-write lies on a memory type whose priority for that
\* access is not 0, and when the memory requirement allows only types of
\* priority 0 the creation fails.
C40_HostAccessBacked ==
  /\ \A b \in 1..Len(bufs) :
       bufs[b].buf # VK_NULL_HANDLE /\ bufs[b].buf_cfg.host_access # {} =>
         PriorOf(bufs[b].buf_cfg.host_access,
                 rsc_dev[bufs[b].devmem].memoryTypeIndex) > 0
  /\ \A i \in 1..Len(imgs) :
       imgs[i].img # VK_NULL_HANDLE /\ imgs[i].img_cfg.host_access # {} =>
         PriorOf(imgs[i].img_cfg.host_access,
                 rsc_dev[imgs[i].devmem].memoryTypeIndex) > 0
  /\ ctxt.live =>
       \A a \in HostAccesses :
         \A memoryTypeBits \in ScoreZeroMasks(a) :
           /\ ~CreatedFor(a, memoryTypeBits).buf.ok
           /\ ~CreatedFor(a, memoryTypeBits).img.ok

\* What does hold: when the requirement allows only types of priority 0,
\* the creation goes through on the allowed type that comes first in the
\* Context's list; it fails only when the requirement allows no type.
FallsBackToScoreZero ==
  ctxt.live =>
    \A a \in HostAccesses :
      \A memoryTypeBits \in ScoreZeroMasks(a) :
        LET r == CreatedFor(a, memoryTypeBits)
            list == ctxt.mem_ty_idxs_by_host_access[a]
        IN /\ r.buf.ok /\ r.img.ok
           /\ r.buf.dev[r.buf.ret.devmem].memoryTypeIndex
                = memoryTypeIndex(list, memoryTypeBits)
           /\ r.img.dev[r.img.ret.devmem].memoryTypeIndex
                = memoryTypeIndex(list, memoryTypeBits)
           /\ r.buf.dev[r.buf.ret.devmem].memoryTypeIndex \in memoryTypeBits

\* A buffer the host is to read lies on memory that is device-local only.
HostReadOnDeviceLocal ==
  /\ bufs # <<>>
  /\ bufs[1].buf # VK_NULL_HANDLE
  /\ bufs[1].buf_cfg.host_access = L_MEMORY_ACCESS_READ_ONLY
  /\ mem_prop[rsc_dev[bufs[1].devmem].memoryTypeIndex + 1] = {"DEVICE_LOCAL"}
====
